---- MODULE Spec2Model ----
(***************************************************************************)
(* CBOM helpers of the cbomkit frontend (frontend/src/helpers/cbom.js):    *)
(* document validation, detection flattening, the dependency index and     *)
(* the quantum-security normalizer, together with the ingestion-side       *)
(* normalizer QuantumSecurityDefaults documented in                        *)
(* CBOM_GENERATION_PROMPT.md.                                              *)
(***************************************************************************)
EXTENDS Integers, Sequences, FiniteSets, TLC

VARIABLES
  cbom,          \* model.cbom: the document currently held
  dependencies,  \* model.dependencies: the five maps of the dependency index
  errors,        \* the ErrorStatus values passed to model.addError so far
  codeOrigin,    \* model.codeOrigin
  showResults,   \* model.showResults
  scanning,      \* model.scanning: isScanning and liveDetections
  console,       \* what the last operation wrote with console.error
  thrown,        \* whether the last operation ended with an exception
  arg,           \* the input handed to the operation under study
  ret            \* the value the last operation returned

vars == <<cbom, dependencies, errors, codeOrigin, showResults, scanning,
          console, thrown, arg, ret>>

(***************************************************************************)
(* JavaScript values.  A value is a pair <<tag, payload>>; an object's     *)
(* payload is a function from its own keys to values, an array's payload   *)
(* is the sequence of its elements.                                        *)
(***************************************************************************)
Undefined == <<"undefined", 0>>
Null      == <<"null", 0>>
Str(s)    == <<"string", s>>
Num(n)    == <<"number", n>>
Arr(a)    == <<"array", a>>
Obj(f)    == <<"object", f>>
EmptyObj  == Obj([k \in {} |-> Undefined])

IsArray(v)    == v[1] = "array"
IsObject(v)   == v[1] = "object"
IsString(v)   == v[1] = "string"
IsNullish(v)  == v[1] \in {"undefined", "null"}
\* typeof v === "object"
TypeofObject(v) == v[1] \in {"object", "array", "null"}
\* !v
Falsy(v) ==
  \/ IsNullish(v)
  \/ v = Str("")
  \/ v = Num(0)
  \/ v = <<"boolean", FALSE>>

\* The test that takes a key with a falsy value for an absent key
HasOwnTruthy(v, k) ==
  CASE IsObject(v) -> k \in DOMAIN v[2] /\ v[2][k] \notin
                        {<<"undefined", 0>>, <<"null", 0>>, <<"string", "">>,
                         <<"number", 0>>, <<"boolean", FALSE>>}
    [] IsArray(v)  -> k = "length"
    [] IsString(v) -> k = "length"
    [] OTHER       -> FALSE

\* Object.hasOwn(v, k) for the keys the helpers ask for (never an index).
\* It throws a TypeError on null and undefined: callers test HasOwnThrows.
HasOwnThrows(v) == IsNullish(v)
HasOwn(v, k) ==
  CASE IsObject(v) -> k \in DOMAIN v[2]
    [] IsArray(v)  -> k = "length"
    [] IsString(v) -> k = "length"
    [] OTHER       -> FALSE

\* v[k]: undefined when the key is not an own key.
Get(v, k) == IF IsObject(v) /\ k \in DOMAIN v[2] THEN v[2][k] ELSE Undefined
\* v[k] = x on an object
Put(v, k, x) == Obj((k :> x) @@ v[2])
\* a ?? b
Coalesce(a, b) == IF IsNullish(a) THEN b ELSE a

\* TRUE; a loop uses it to compute the value of one step before it starts
\* the next one.
Computed(x) == {x} # {}

\* The concatenation of the sequences of ss
RECURSIVE Concat(_)
Concat(ss) == IF ss = <<>> THEN <<>> ELSE Head(ss) \o Concat(Tail(ss))

\* The array as it is, nothing flattened
FlatNever(s) == s

\* Array.prototype.flat(): one level
Flat(s) ==
  Concat([i \in 1..Len(s) |-> IF IsArray(s[i]) THEN s[i][2] ELSE <<s[i]>>])

\* s.filter(item => item !== undefined)
FilterDefined(s) ==
  Concat([i \in 1..Len(s) |-> IF s[i] # Undefined THEN <<s[i]>> ELSE <<>>])

(***************************************************************************)
(* Strings: String.prototype.includes, split and indexOf on one-character  *)
(* separators.                                                             *)
(***************************************************************************)
RECURSIVE IndexOfFrom(_, _, _)
IndexOfFrom(s, ch, i) ==
  IF i > Len(s) THEN 0
  ELSE IF SubSeq(s, i, i) = ch THEN i
  ELSE IndexOfFrom(s, ch, i + 1)

Includes(s, ch) == IndexOfFrom(s, ch, 1) # 0

RECURSIVE Split(_, _)
Split(s, ch) ==
  LET i == IndexOfFrom(s, ch, 1) IN
  IF i = 0 THEN <<s>>
  ELSE <<SubSeq(s, 1, i - 1)>> \o Split(SubSeq(s, i + 1, Len(s)), ch)

\* String.prototype.toLowerCase on the letters A-Z
UpperCaseLetters == "ABCDEFGHIJKLMNOPQRSTUVWXYZ"
LowerCaseLetters == "abcdefghijklmnopqrstuvwxyz"

RECURSIVE toLowerCase(_)
toLowerCase(s) ==
  IF Len(s) = 0 THEN s
  ELSE LET i == IndexOfFrom(UpperCaseLetters, SubSeq(s, 1, 1), 1)
       IN (IF i = 0 THEN SubSeq(s, 1, 1) ELSE SubSeq(LowerCaseLetters, i, i))
            \o toLowerCase(SubSeq(s, 2, Len(s)))

(***************************************************************************)
(* Map: the entries <<key, value>> in insertion order.                     *)
(***************************************************************************)
EmptyMap == <<>>
MapHas(m, k) == \E i \in 1..Len(m) : m[i][1] = k
MapGet(m, k) == m[CHOOSE i \in 1..Len(m) : m[i][1] = k][2]
MapSet(m, k, v) ==
  IF MapHas(m, k)
  THEN [i \in 1..Len(m) |-> IF m[i][1] = k THEN <<k, v>> ELSE m[i]]
  ELSE Append(m, <<k, v>>)
MapValues(m) == [i \in 1..Len(m) |-> m[i][2]]
MapKeys(m) == {m[i][1] : i \in 1..Len(m)}
\* m.get(k) || []
MapGetOrEmpty(m, k) == IF MapHas(m, k) THEN MapGet(m, k) ELSE <<>>

(***************************************************************************)
(* model.js: ErrorStatus and addError.                                     *)
(***************************************************************************)
InvalidCbom      == "InvalidCbom"
IgnoredComponent == "IgnoredComponent"
JsonParsing      == "JsonParsing"

CRYPTO_ASSET == Str("cryptographic-asset")

(***************************************************************************)
(* checkCbomValidity.  The result records the locals the function ends     *)
(* with, the signals it passes to model.addError, and whether it threw.    *)
(***************************************************************************)
MANDATORY_FIELDS == <<"bomFormat", "specVersion", "serialNumber", "version">>

MissingFieldMessage(f) == "Missing mandatory field: " \o f \o "."

\* lines 23-38: one message per absent mandatory field, in source order
MissingFieldMessages(doc) ==
  Concat([i \in 1..Len(MANDATORY_FIELDS) |->
            IF ~HasOwn(doc, MANDATORY_FIELDS[i])
            THEN <<MissingFieldMessage(MANDATORY_FIELDS[i])>>
            ELSE <<>>])

\* The messages of a component when only its type is looked at
ComponentMessagesTypeOnly(component, index) ==
  IF ~HasOwn(component, "type")
  THEN <<"Component at index " \o ToString(index)
           \o " is missing mandatory field: type.">>
  ELSE <<>>

\* lines 47-58: the messages one component contributes (index is 0-based)
ComponentMessages(component, index) ==
  IF ~HasOwn(component, "type")
  THEN <<"Component at index " \o ToString(index)
           \o " is missing mandatory field: type.">>
  ELSE IF Get(component, "type") # CRYPTO_ASSET THEN <<>>
  ELSE IF ~HasOwn(component, "cryptoProperties")
  THEN <<"Component at index " \o ToString(index)
           \o " is missing mandatory field: cryptoProperties.">>
  ELSE <<>>

\* No component is ever counted as ignored
ComponentIgnoredNever(component) == FALSE

\* lines 51-53
ComponentIgnored(component) ==
  HasOwn(component, "type") /\ Get(component, "type") # CRYPTO_ASSET

AllComponentMessages(comps) ==
  Concat([i \in 1..Len(comps) |-> ComponentMessages(comps[i], i - 1)])

\* The validator never leaves at line 41
ReturnsEarlyNever(doc) == FALSE

\* line 41: "return;" leaves the function before lines 75-81
ReturnsEarly(doc) == ~IsNullish(doc) /\ ~HasOwn(doc, "components")

CheckCbomValidityThrows(doc) ==
  /\ ~IsNullish(doc)
  /\ HasOwn(doc, "components")
  /\ IsArray(Get(doc, "components"))
  /\ \E i \in 1..Len(Get(doc, "components")[2]) :
       HasOwnThrows(Get(doc, "components")[2][i])

\* lines 19-72: the messages pushed to errorMessages
ErrorMessages(doc) ==
  IF IsNullish(doc) THEN <<"CBOM is undefined or null.">>
  ELSE MissingFieldMessages(doc) \o
       ( IF ~HasOwn(doc, "components") THEN <<>>
         ELSE IF ~IsArray(Get(doc, "components"))
         THEN <<"Components field is not an array.">>
         ELSE AllComponentMessages(Get(doc, "components")[2]) )

\* isIgnoringSomeComponent when the loop of lines 46-71 ends
IsIgnoringSomeComponent(doc) ==
  /\ ~IsNullish(doc)
  /\ HasOwn(doc, "components")
  /\ IsArray(Get(doc, "components"))
  /\ \E i \in 1..Len(Get(doc, "components")[2]) :
       ComponentIgnored(Get(doc, "components")[2][i])

\* lines 75-81, which the early return of line 41 skips
Verdict(errorMessages, isIgnoringSomeComponent, early) ==
  [ isValid |-> errorMessages = <<>>,
    errorMessages |-> errorMessages,
    isIgnoringSomeComponent |-> isIgnoringSomeComponent,
    signals |-> IF early THEN {}
                ELSE (IF isIgnoringSomeComponent THEN {IgnoredComponent} ELSE {})
                     \cup (IF errorMessages # <<>> THEN {InvalidCbom} ELSE {}),
    logged |-> IF early THEN <<>> ELSE errorMessages ]

checkCbomValidity(doc) ==
  Verdict(ErrorMessages(doc), IsIgnoringSomeComponent(doc), ReturnsEarly(doc))

(***************************************************************************)
(* getDetectionsFromCbom.  A detection is a record: val is its content,    *)
(* src the index of the component it comes from, occ the index of the      *)
(* occurrence it carries (0: none), and shared tells that the detection is *)
(* the component object itself and not a clone of it.                      *)
(***************************************************************************)
\* JSON.parse(JSON.stringify(v)): undefined-valued keys are dropped, an
\* undefined array element becomes null.
RECURSIVE JsonClone(_)
JsonClone(v) ==
  CASE IsObject(v) ->
         Obj([k \in {x \in DOMAIN v[2] : v[2][x] # Undefined} |-> JsonClone(v[2][k])])
    [] IsArray(v) ->
         Arr([i \in 1..Len(v[2]) |->
                IF v[2][i] = Undefined THEN Null ELSE JsonClone(v[2][i])])
    [] OTHER -> v

\* lines 356-360
HasOccurrences(component) ==
  /\ HasOwn(component, "evidence")
  /\ HasOwn(Get(component, "evidence"), "occurrences")
  /\ IsArray(Get(Get(component, "evidence"), "occurrences"))

\* The clone keeps every occurrence of the component
DetectionWithEveryContext(component, singleContext) == JsonClone(component)

\* lines 364-369: the clone carrying the single occurrence singleContext
DetectionWithSingleContext(component, singleContext) ==
  LET clone == JsonClone(component)
  IN Put(clone, "evidence",
         Put(Get(clone, "evidence"), "occurrences", Arr(<<singleContext>>)))

\* The detections of a component, last occurrence first
ComponentDetectionsReversed(component, i) ==
  IF ~(HasOwn(component, "type") /\ Get(component, "type") = CRYPTO_ASSET)
  THEN <<>>
  ELSE IF HasOccurrences(component)
  THEN LET occs == Get(Get(component, "evidence"), "occurrences")[2]
       IN [j \in 1..Len(occs) |->
             [val |-> DetectionWithSingleContext(component, occs[Len(occs) + 1 - j]),
              src |-> i, occ |-> Len(occs) + 1 - j, shared |-> FALSE]]
  ELSE <<[val |-> component, src |-> i, occ |-> 0, shared |-> TRUE]>>

\* lines 355-376: the detections component number i contributes
ComponentDetections(component, i) ==
  IF ~(HasOwn(component, "type") /\ Get(component, "type") = CRYPTO_ASSET)
  THEN <<>>
  ELSE IF HasOccurrences(component)
  THEN LET occs == Get(Get(component, "evidence"), "occurrences")[2]
       IN [j \in 1..Len(occs) |->
             [val |-> DetectionWithSingleContext(component, occs[j]),
              src |-> i, occ |-> j, shared |-> FALSE]]
  ELSE <<[val |-> component, src |-> i, occ |-> 0, shared |-> TRUE]>>

\* What makes the try block of lines 346-381 throw: Object.hasOwn on a null
\* component, or on a null evidence of a cryptographic asset.
FlattenThrows(doc) ==
  /\ HasOwn(doc, "components")
  /\ IsArray(Get(doc, "components"))
  /\ \E i \in 1..Len(Get(doc, "components")[2]) :
       LET c == Get(doc, "components")[2][i] IN
         \/ HasOwnThrows(c)
         \/ /\ HasOwn(c, "type") /\ Get(c, "type") = CRYPTO_ASSET
            /\ HasOwn(c, "evidence")
            /\ HasOwnThrows(Get(c, "evidence"))

\* The result: the detections and the signals raised (JsonParsing from the
\* catch block of lines 382-386).
getDetectionsFromCbom(doc) ==
  IF IsNullish(doc) THEN [detections |-> <<>>, signals |-> {}]
  ELSE IF FlattenThrows(doc) THEN [detections |-> <<>>, signals |-> {JsonParsing}]
  ELSE IF HasOwn(doc, "components") /\ IsArray(Get(doc, "components"))
  THEN LET comps == Get(doc, "components")[2]
       IN [detections |->
             Concat([i \in 1..Len(comps) |-> ComponentDetections(comps[i], i)]),
           signals |-> {}]
  ELSE [detections |-> <<>>, signals |-> {}]


(***************************************************************************)
(* resolvePath                                                             *)
(***************************************************************************)
RECURSIVE traverse(_, _)
traverse(currentObj, remainingPath) ==
  IF remainingPath = <<>>
  THEN IF currentObj # Undefined /\ ~IsArray(currentObj)
       THEN Arr(<<currentObj>>)
       ELSE currentObj
  ELSE IF IsArray(currentObj)
  THEN Arr(Flat(FilterDefined(
             [i \in 1..Len(currentObj[2]) |->
                traverse(currentObj[2][i], remainingPath)])))
  ELSE IF IsObject(currentObj) /\ HasOwn(currentObj, Head(remainingPath))
  THEN traverse(Get(currentObj, Head(remainingPath)), Tail(remainingPath))
  ELSE Undefined

resolvePath(obj, path) == traverse(obj, Split(path, "."))

(***************************************************************************)
(* getDetections and removeBomRefFromDetectionNames.  The post-pass writes *)
(* to the detection objects: a write to a shared detection is a write to   *)
(* the component (or live detection) it is.                                *)
(***************************************************************************)
\* detection.name.includes("@") or .split('@') is a TypeError
NameThrows(d) ==
  /\ HasOwn(d, "name")
  /\ ~IsString(Get(d, "name"))
  /\ \/ ~IsArray(Get(d, "name"))
     \/ \E i \in 1..Len(Get(d, "name")[2]) : Get(d, "name")[2][i] = Str("@")

\* The detection with its name as it is
StripNameNever(d) == d

\* lines 336-338 on one detection object
StripName(d) ==
  IF HasOwn(d, "name") /\ IsString(Get(d, "name")) /\ Includes(Get(d, "name")[2], "@")
  THEN Put(d, "name", Str(Split(Get(d, "name")[2], "@")[1]))
  ELSE d

\* lines 335-340: the detections are rewritten in order, up to the first
\* one whose name makes the loop throw
removeBomRefFromDetectionNames(detections) ==
  LET throwing == {i \in 1..Len(detections) : NameThrows(detections[i].val)}
      stop == IF throwing = {} THEN Len(detections) + 1
              ELSE CHOOSE i \in throwing : \A j \in throwing : i <= j
  IN [ threw |-> throwing # {},
       detections |->
         [i \in 1..Len(detections) |->
            IF i < stop
            THEN [detections[i] EXCEPT !.val = StripName(detections[i].val)]
            ELSE detections[i]] ]

\* The elements of `objects` after the writes made to the shared detections
WriteBack(objects, detections) ==
  [i \in 1..Len(objects) |->
     IF \E j \in 1..Len(detections) : detections[j].shared /\ detections[j].src = i
     THEN detections[CHOOSE j \in 1..Len(detections) :
                       detections[j].shared /\ detections[j].src = i].val
     ELSE objects[i]]

LiveDetections(scan) ==
  [i \in 1..Len(scan.liveDetections) |->
     [val |-> scan.liveDetections[i], src |-> i, occ |-> 0, shared |-> TRUE]]

\* The model after the post-pass post ran on the detections
AfterPostPass(modelCbom, scan, signals, post) ==
  [ detections |-> post.detections,
    threw |-> post.threw,
    signals |-> signals,
    cbom |-> IF scan.isScanning \/ post.detections = <<>>
             THEN modelCbom
             ELSE Put(modelCbom, "components",
                      Arr(WriteBack(Get(modelCbom, "components")[2],
                                    post.detections))),
    scanning |-> IF scan.isScanning
                 THEN [scan EXCEPT !.liveDetections = WriteBack(@, post.detections)]
                 ELSE scan ]

\* lines 325-329 given the result flat of getDetectionsFromCbom(model.cbom)
DetectionsOf(modelCbom, scan, flat) ==
  AfterPostPass(modelCbom, scan, flat.signals,
                removeBomRefFromDetectionNames(
                  IF scan.isScanning THEN LiveDetections(scan) ELSE flat.detections))

\* getDetections(): the detections returned, model.cbom and model.scanning
\* after the call, the signals raised and whether it threw.
getDetections(modelCbom, scan) ==
  DetectionsOf(modelCbom, scan, getDetectionsFromCbom(modelCbom))

(***************************************************************************)
(* setDependenciesMap                                                      *)
(***************************************************************************)
dependencyPaths ==
  << "cryptoProperties.certificateProperties.signatureAlgorithmRef",
     "cryptoProperties.certificateProperties.subjectPublicKeyRef",
     "cryptoProperties.protocolProperties.cipherSuites.algorithms",
     "cryptoProperties.protocolProperties.ikev2TransformTypes.encr",
     "cryptoProperties.protocolProperties.ikev2TransformTypes.prf",
     "cryptoProperties.protocolProperties.ikev2TransformTypes.integ",
     "cryptoProperties.protocolProperties.ikev2TransformTypes.ke",
     "cryptoProperties.protocolProperties.ikev2TransformTypes.esn",
     "cryptoProperties.protocolProperties.ikev2TransformTypes.auth",
     "cryptoProperties.protocolProperties.cryptoRefArray",
     "cryptoProperties.relatedCryptoMaterialProperties.algorithmRef",
     "cryptoProperties.relatedCryptoMaterialProperties.securedBy.algorithmRef" >>

DEPENDS_ON == "dependencies.dependsOn"
PROVIDES   == "dependencies.provides"

EmptyIndex ==
  [ dependsMap |-> EmptyMap, isDependedOnMap |-> EmptyMap,
    providesMap |-> EmptyMap, isProvidedByMap |-> EmptyMap,
    detectionsMap |-> EmptyMap ]

\* The push that leaves out a pair the list already holds
PushPairOnce(map, key, pair) ==
  IF \E n \in 1..Len(MapGetOrEmpty(map, key)) : MapGetOrEmpty(map, key)[n] = pair
  THEN map
  ELSE MapSet(map, key, Append(MapGetOrEmpty(map, key), pair))

\* if (!map.has(key)) map.set(key, []); map.get(key).push(pair)
PushPair(map, key, pair) == MapSet(map, key, Append(MapGetOrEmpty(map, key), pair))

\* The edge without its mirror
AddDependsEdgeOneWay(idx, bomRef, ref, path) ==
  [idx EXCEPT !.dependsMap = PushPair(@, bomRef, <<ref, path>>)]

\* lines 134-144 and 196-206: the edge and its mirror
AddDependsEdge(idx, bomRef, ref, path) ==
  [idx EXCEPT !.dependsMap = PushPair(@, bomRef, <<ref, path>>),
              !.isDependedOnMap = PushPair(@, ref, <<bomRef, path>>)]

\* lines 151-161
AddProvidesEdge(idx, bomRef, ref, path) ==
  [idx EXCEPT !.providesMap = PushPair(@, bomRef, <<ref, path>>),
              !.isProvidedByMap = PushPair(@, ref, <<bomRef, path>>)]

\* for (const ref of refs): a depends-on edge bomRef -> ref each
RECURSIVE AddDependsEdges(_, _, _, _)
AddDependsEdges(idx, bomRef, refs, path) ==
  IF refs = <<>> THEN idx
  ELSE LET next == AddDependsEdge(idx, bomRef, Head(refs), path)
       IN IF Computed(next) THEN AddDependsEdges(next, bomRef, Tail(refs), path)
          ELSE next

\* for (const providesRef of dep.provides)
RECURSIVE AddProvidesEdges(_, _, _, _)
AddProvidesEdges(idx, bomRef, refs, path) ==
  IF refs = <<>> THEN idx
  ELSE LET next == AddProvidesEdge(idx, bomRef, Head(refs), path)
       IN IF Computed(next) THEN AddProvidesEdges(next, bomRef, Tail(refs), path)
          ELSE next

\* lines 128-164: one entry of cbom.dependencies
AddExplicit(idx, dep) ==
  IF ~HasOwn(dep, "ref") THEN idx
  ELSE LET bomRef == Get(dep, "ref")
           withDepends ==
             IF HasOwn(dep, "dependsOn") /\ IsArray(Get(dep, "dependsOn"))
             THEN AddDependsEdges(idx, bomRef, Get(dep, "dependsOn")[2], DEPENDS_ON)
             ELSE idx
       IN IF HasOwn(dep, "provides") /\ IsArray(Get(dep, "provides"))
          THEN AddProvidesEdges(withDepends, bomRef, Get(dep, "provides")[2], PROVIDES)
          ELSE withDepends

\* for (const dep of cbom.dependencies)
RECURSIVE AddExplicitAll(_, _)
AddExplicitAll(idx, deps) ==
  IF deps = <<>> THEN idx
  ELSE LET next == AddExplicit(idx, Head(deps))
       IN IF Computed(next) THEN AddExplicitAll(next, Tail(deps)) ELSE next

\* path.split('.') of each catalog path
dependencyPathParts ==
  [i \in 1..Len(dependencyPaths) |-> Split(dependencyPaths[i], ".")]

\* resolvePath(obj, path) for a catalog path: the same traversal, along the
\* parts of the path split above
resolveCatalogPath(obj, path) ==
  traverse(obj, dependencyPathParts[CHOOSE i \in 1..Len(dependencyPaths) :
                                      dependencyPaths[i] = path])

\* lines 193-208: the edges of one detection along one catalog path
AddPathEdges(idx, detection, bomRef, path) ==
  LET allRefs == resolveCatalogPath(detection.val, path)
  IN IF allRefs # Undefined
     THEN AddDependsEdges(idx, bomRef, allRefs[2], path)
     ELSE idx

\* for (const path of dependencyPaths)
RECURSIVE AddPaths(_, _, _, _)
AddPaths(idx, detection, bomRef, paths) ==
  IF paths = <<>> THEN idx
  ELSE LET next == AddPathEdges(idx, detection, bomRef, Head(paths))
       IN IF Computed(next) THEN AddPaths(next, detection, bomRef, Tail(paths))
          ELSE next

\* lines 170-210: one detection
AddImplicit(idx, detection) ==
  IF ~HasOwn(detection.val, "bom-ref") THEN idx
  ELSE LET bomRef == Get(detection.val, "bom-ref")
       IN AddPaths([idx EXCEPT !.detectionsMap = MapSet(@, bomRef, detection)],
                   detection, bomRef, dependencyPaths)

\* for (const detection of getDetections())
RECURSIVE AddImplicitAll(_, _)
AddImplicitAll(idx, detections) ==
  IF detections = <<>> THEN idx
  ELSE LET next == AddImplicit(idx, Head(detections))
       IN IF Computed(next) THEN AddImplicitAll(next, Tail(detections)) ELSE next

\* Object.hasOwn on a null document or a null dependency entry
ExplicitThrows(cbomParam) ==
  \/ HasOwnThrows(cbomParam)
  \/ /\ HasOwn(cbomParam, "dependencies")
     /\ IsArray(Get(cbomParam, "dependencies"))
     /\ \E i \in 1..Len(Get(cbomParam, "dependencies")[2]) :
          HasOwnThrows(Get(cbomParam, "dependencies")[2][i])

\* The index built from the document and the detections
BuildIndex(cbomParam, detections) ==
  AddImplicitAll(
    IF HasOwn(cbomParam, "dependencies") /\ IsArray(Get(cbomParam, "dependencies"))
    THEN AddExplicitAll(EmptyIndex, Get(cbomParam, "dependencies")[2])
    ELSE EmptyIndex,
    detections)

\* setDependenciesMap(cbomParam) in a model holding modelCbom, scan and the
\* index oldIndex: the model after the call.
IndexFrom(cbomParam, got, oldIndex) ==
  [ threw |-> got.threw,
    dependencies |-> IF got.threw THEN oldIndex
                     ELSE BuildIndex(cbomParam, got.detections),
    cbom |-> got.cbom,
    scanning |-> got.scanning,
    signals |-> got.signals ]

setDependenciesMap(cbomParam, modelCbom, scan, oldIndex) ==
  IF ExplicitThrows(cbomParam)
  THEN [threw |-> TRUE, dependencies |-> oldIndex, cbom |-> modelCbom,
        scanning |-> scan, signals |-> {}]
  ELSE IndexFrom(cbomParam, getDetections(modelCbom, scan), oldIndex)

(***************************************************************************)
(* getDependencies                                                         *)
(***************************************************************************)
\* Every pair is kept: one whose reference is no key of detectionsMap
\* comes with the undefined that detectionsMap.get returns
ResolvePairsUnfiltered(refPathList, detectionsMap) ==
  [i \in 1..Len(refPathList) |->
     IF MapHas(detectionsMap, refPathList[i][1])
     THEN <<MapGet(detectionsMap, refPathList[i][1]), refPathList[i][2]>>
     ELSE <<[val |-> Undefined, src |-> 0, occ |-> 0, shared |-> FALSE],
            refPathList[i][2]>>]

\* lines 232-239: the pairs whose reference is a key of detectionsMap
ResolvePairs(refPathList, detectionsMap) ==
  Concat([i \in 1..Len(refPathList) |->
            IF MapHas(detectionsMap, refPathList[i][1])
            THEN << <<MapGet(detectionsMap, refPathList[i][1]), refPathList[i][2]>> >>
            ELSE <<>>])

getDependencies(idx, bomRef) ==
  [ dependsComponentList |->
      ResolvePairs(MapGetOrEmpty(idx.dependsMap, bomRef), idx.detectionsMap),
    isDependedOnComponentList |->
      ResolvePairs(MapGetOrEmpty(idx.isDependedOnMap, bomRef), idx.detectionsMap),
    providesComponentList |->
      ResolvePairs(MapGetOrEmpty(idx.providesMap, bomRef), idx.detectionsMap),
    isProvidedByComponentList |->
      ResolvePairs(MapGetOrEmpty(idx.isProvidedByMap, bomRef), idx.detectionsMap) ]

(***************************************************************************)
(* setCbom, showResultFromApi, showResultFromUpload, getCbomFromScan.      *)
(* A model state is the record of the fields of model; each operator       *)
(* gives the state the call leaves, with threw telling whether it ended    *)
(* with an exception and logged what it wrote with console.error.          *)
(***************************************************************************)
\* lines 276-289: one entry of metadata.properties
ApplyProperty(origin, prop) ==
  IF HasOwn(prop, "name") /\ HasOwn(prop, "value")
  THEN CASE Get(prop, "name") = Str("gitUrl") ->
              [origin EXCEPT !.gitUrl = Get(prop, "value")]
         [] Get(prop, "name") = Str("revision") ->
              [origin EXCEPT !.revision = Get(prop, "value")]
         [] Get(prop, "name") = Str("subfolder") ->
              [origin EXCEPT !.subfolder = Get(prop, "value")]
         [] Get(prop, "name") = Str("commit") ->
              [origin EXCEPT !.commitID = Get(prop, "value")]
         [] OTHER -> origin
  ELSE origin

\* lines 275-291: metadata.properties.forEach, up to the first entry on
\* which Object.hasOwn throws
RECURSIVE ApplyProperties(_, _)
ApplyProperties(origin, props) ==
  IF props = <<>> THEN [threw |-> FALSE, codeOrigin |-> origin]
  ELSE IF HasOwnThrows(Head(props)) THEN [threw |-> TRUE, codeOrigin |-> origin]
  ELSE LET next == ApplyProperty(origin, Head(props))
       IN IF Computed(next) THEN ApplyProperties(next, Tail(props))
          ELSE [threw |-> FALSE, codeOrigin |-> next]

\* lines 273-293: codeOrigin after the metadata block, and whether it threw
ApplyMetadata(origin, doc) ==
  IF HasOwnThrows(doc) THEN [threw |-> TRUE, codeOrigin |-> origin]
  ELSE IF ~HasOwn(doc, "metadata") THEN [threw |-> FALSE, codeOrigin |-> origin]
  ELSE IF HasOwnThrows(Get(doc, "metadata")) THEN [threw |-> TRUE, codeOrigin |-> origin]
  ELSE IF ~( HasOwn(Get(doc, "metadata"), "properties")
             /\ IsArray(Get(Get(doc, "metadata"), "properties")) )
  THEN [threw |-> FALSE, codeOrigin |-> origin]
  ELSE ApplyProperties(origin, Get(Get(doc, "metadata"), "properties")[2])

\* lines 270-293 given the verdict v of checkCbomValidity and the result md
\* of the metadata block
AfterSetCbom(m, doc, v, md) ==
  [m EXCEPT !.errors = @ \cup v.signals,
            !.logged = v.logged,
            !.cbom = doc,
            !.codeOrigin = md.codeOrigin,
            !.threw = md.threw]

setCbom(m, doc) ==
  IF CheckCbomValidityThrows(doc)
  THEN [m EXCEPT !.threw = TRUE, !.logged = <<>>]
  ELSE AfterSetCbom(m, doc, checkCbomValidity(doc), ApplyMetadata(m.codeOrigin, doc))

AfterRebuild(m, r) ==
  [m EXCEPT !.dependencies = r.dependencies,
            !.cbom = r.cbom,
            !.scanning = r.scanning,
            !.errors = @ \cup r.signals,
            !.threw = r.threw]

\* The call setDependenciesMap(doc) inside a load; a load that has thrown
\* does not reach it.
RebuildIndex(m, doc) ==
  IF m.threw THEN m
  ELSE AfterRebuild(m, setDependenciesMap(doc, m.cbom, m.scanning, m.dependencies))

\* lines 309-310
FinishUpload(m, name) ==
  IF m.threw THEN m
  ELSE [m EXCEPT !.codeOrigin.uploadedFileName = name, !.showResults = TRUE]

showResultFromUpload(m, doc, name) ==
  FinishUpload(RebuildIndex(setCbom(m, doc), doc), name)

\* getCbomFromScan: the document and the signals raised
getCbomFromScan(scan) ==
  IF ~Falsy(scan) /\ ~Falsy(Get(scan, "bom"))
  THEN [bom |-> Get(scan, "bom"), signals |-> {}]
  ELSE [bom |-> EmptyObj, signals |-> {InvalidCbom}]

\* lines 300-303; reading a property of a null cbomApi throws
FinishApi(m, cbomApi) ==
  IF m.threw THEN m
  ELSE IF IsNullish(cbomApi) THEN [m EXCEPT !.threw = TRUE]
  ELSE [m EXCEPT !.codeOrigin.projectIdentifier = Get(cbomApi, "projectIdentifier"),
                 !.codeOrigin.gitUrl = Get(cbomApi, "gitUrl"),
                 !.codeOrigin.revision = Get(cbomApi, "branch"),
                 !.showResults = TRUE]

\* lines 297-299 given the result got of getCbomFromScan
LoadScan(m, got) ==
  RebuildIndex(setCbom([m EXCEPT !.errors = @ \cup got.signals], got.bom), got.bom)

showResultFromApi(m, cbomApi) ==
  FinishApi(LoadScan(m, getCbomFromScan(cbomApi)), cbomApi)

(***************************************************************************)
(* The display-side normalizer: getQuantumSecurityFromCbom                 *)
(***************************************************************************)
NOT_ANALYSED_TEXT == "Not analysed"
NotAnalysed == Str(NOT_ANALYSED_TEXT)

QUANTUM_VECTOR_DEFINITIONS ==
  << [id |-> "hndl", name |-> "HNDL",
      fullName |-> "Harvest-now-decrypt-later threat",
      description |-> "Analyses storage exposure in data at rest, traffic analysis exposure, and long-term data retention policies."],
     [id |-> "authentication", name |-> "Authentication",
      fullName |-> "Authentication threat",
      description |-> "Analyses digital signatures, certificate management, and multi-factor authentication."],
     [id |-> "kml", name |-> "KML",
      fullName |-> "Key management and lifecycle",
      description |-> "Analyses quantum robustness of key storage, rotation, destruction, and escrow policies."],
     [id |-> "thirdParty", name |-> "Third Party",
      fullName |-> "Dependency on third parties",
      description |-> "Analyses vendor quantum readiness, library dependencies, API security, and supply chain risks."],
     [id |-> "cryptoAgility", name |-> "Crypto Agility",
      fullName |-> "Cryptographic agility",
      description |-> "Analyses cryptographic abstraction layers, protocol flexibility, update mechanisms, and hybrid algorithms."],
     [id |-> "governance", name |-> "Compliance",
      fullName |-> "Governance and compliance",
      description |-> "Analyses compliance with NIST, CNSA 2.0, ETSI, ISO/IEC standards and breach detection processes."] >>

CanonicalIds ==
  {QUANTUM_VECTOR_DEFINITIONS[i].id : i \in 1..Len(QUANTUM_VECTOR_DEFINITIONS)}

SEVERITY_LEVELS ==
  Arr(<<Str("critical"), Str("high"), Str("medium"), Str("low"), Str("informational")>>)

\* The catalog entry alone, with no assessment field
DefaultVectorBare(def) ==
  Obj([ id |-> Str(def.id), name |-> Str(def.name),
        fullName |-> Str(def.fullName), description |-> Str(def.description) ])

\* lines 422-428: { ...def, status, severity, urgency, notes }
DefaultVector(def) ==
  Obj([ id |-> Str(def.id), name |-> Str(def.name),
        fullName |-> Str(def.fullName), description |-> Str(def.description),
        status |-> NotAnalysed, severity |-> NotAnalysed,
        urgency |-> NotAnalysed, notes |-> NotAnalysed ])

defaultQuantumSecurity ==
  [ qtrl |-> Obj([level |-> NotAnalysed, name |-> NotAnalysed,
                  conditions |-> NotAnalysed]),
    vectors |-> Arr([i \in 1..Len(QUANTUM_VECTOR_DEFINITIONS) |->
                       DefaultVector(QUANTUM_VECTOR_DEFINITIONS[i])]),
    riskModel |-> Obj([severityLevels |-> SEVERITY_LEVELS,
                       urgencyLevels |-> SEVERITY_LEVELS,
                       notes |-> NotAnalysed]) ]

normalizeQtrl(candidate, fallback) ==
  IF Falsy(candidate) \/ ~TypeofObject(candidate) THEN fallback
  ELSE Obj([ level |-> Coalesce(Get(candidate, "level"), Get(fallback, "level")),
             name |-> Coalesce(Get(candidate, "name"), Get(fallback, "name")),
             conditions |-> Coalesce(Get(candidate, "conditions"),
                                     Get(fallback, "conditions")) ])

\* The merge that gives every element a key of its own, whatever its id
MergeVectorUnkeyed(merged, vector) ==
  IF Falsy(vector) \/ ~TypeofObject(vector) THEN merged
  ELSE LET id == Str("vector-" \o ToString(Len(merged) + 1))
       IN MapSet(merged, id,
            Obj([ id |-> id,
                  name |-> Coalesce(Get(vector, "name"), id),
                  status |-> Coalesce(Get(vector, "status"), NotAnalysed),
                  severity |-> Coalesce(Get(vector, "severity"), NotAnalysed),
                  urgency |-> Coalesce(Get(vector, "urgency"), NotAnalysed),
                  notes |-> Coalesce(Get(vector, "notes"), NotAnalysed) ]))

\* lines 453-472: one element of candidateVectors merged into the map
MergeVector(merged, vector) ==
  IF Falsy(vector) \/ ~TypeofObject(vector) THEN merged
  ELSE LET id == Coalesce(Get(vector, "id"),
                   Coalesce(Get(vector, "name"),
                            Str("vector-" \o ToString(Len(merged) + 1))))
           base == IF MapHas(merged, id) THEN MapGet(merged, id)
                   ELSE Obj([ id |-> id,
                              name |-> Coalesce(Get(vector, "name"), id),
                              status |-> NotAnalysed, severity |-> NotAnalysed,
                              urgency |-> NotAnalysed, notes |-> NotAnalysed ])
       IN MapSet(merged, id,
            Obj([ name |-> Coalesce(Get(vector, "name"), Get(base, "name")),
                  status |-> Coalesce(Get(vector, "status"), Get(base, "status")),
                  severity |-> Coalesce(Get(vector, "severity"), Get(base, "severity")),
                  urgency |-> Coalesce(Get(vector, "urgency"), Get(base, "urgency")),
                  notes |-> Coalesce(Get(vector, "notes"), Get(base, "notes")) ]
                @@ base[2]))

\* candidateVectors.forEach
RECURSIVE MergeVectors(_, _)
MergeVectors(merged, vectors) ==
  IF vectors = <<>> THEN merged
  ELSE LET next == MergeVector(merged, Head(vectors))
       IN IF Computed(next) THEN MergeVectors(next, Tail(vectors)) ELSE next

normalizeVectors(candidateVectors, fallbackVectors) ==
  LET initial == [i \in 1..Len(fallbackVectors[2]) |->
                    <<Get(fallbackVectors[2][i], "id"), fallbackVectors[2][i]>>]
      merged == IF IsArray(candidateVectors)
                THEN MergeVectors(initial, candidateVectors[2])
                ELSE initial
  IN Arr(MapValues(merged))

\* The risk model that keeps whatever value a scale has, list or not
normalizeRiskModelUnchecked(candidate, fallback) ==
  IF Falsy(candidate) \/ ~TypeofObject(candidate) THEN fallback
  ELSE Obj([ severityLevels |-> Coalesce(Get(candidate, "severityLevels"),
                                         Get(fallback, "severityLevels")),
             urgencyLevels |-> Coalesce(Get(candidate, "urgencyLevels"),
                                        Get(fallback, "urgencyLevels")),
             notes |-> Coalesce(Get(candidate, "notes"), Get(fallback, "notes")) ])

normalizeRiskModel(candidate, fallback) ==
  IF Falsy(candidate) \/ ~TypeofObject(candidate) THEN fallback
  ELSE Obj([ severityLevels |->
               IF IsArray(Get(candidate, "severityLevels"))
               THEN Get(candidate, "severityLevels")
               ELSE Get(fallback, "severityLevels"),
             urgencyLevels |->
               IF IsArray(Get(candidate, "urgencyLevels"))
               THEN Get(candidate, "urgencyLevels")
               ELSE Get(fallback, "urgencyLevels"),
             notes |-> Coalesce(Get(candidate, "notes"), Get(fallback, "notes")) ])

getQuantumSecurityFromCbom(doc) ==
  IF Falsy(doc) \/ ~TypeofObject(doc) THEN defaultQuantumSecurity
  ELSE LET quantum == Get(doc, "quantumSecurity")
           base == defaultQuantumSecurity
       IN IF Falsy(quantum) \/ ~TypeofObject(quantum) THEN defaultQuantumSecurity
          ELSE [ qtrl |-> normalizeQtrl(Get(quantum, "qtrl"), base.qtrl),
                 vectors |-> normalizeVectors(Get(quantum, "vectors"), base.vectors),
                 riskModel |-> normalizeRiskModel(Get(quantum, "riskModel"),
                                                  base.riskModel) ]

\* lines 501-507
defaultAssessment ==
  Obj([ vector |-> NotAnalysed, severity |-> NotAnalysed, urgency |-> NotAnalysed,
        notes |-> NotAnalysed, vectorName |-> NotAnalysed ])

\* The display name that is the sentinel for every vector outside the catalog
VectorNameOrSentinel(vectorId) ==
  IF \E i \in 1..Len(QUANTUM_VECTOR_DEFINITIONS) :
       Str(QUANTUM_VECTOR_DEFINITIONS[i].id) = vectorId
  THEN Str(QUANTUM_VECTOR_DEFINITIONS[
             CHOOSE i \in 1..Len(QUANTUM_VECTOR_DEFINITIONS) :
               Str(QUANTUM_VECTOR_DEFINITIONS[i].id) = vectorId].name)
  ELSE NotAnalysed

\* lines 524-525: the display name of the definition whose id is vectorId,
\* else vectorId itself
VectorNameOf(vectorId) ==
  IF \E i \in 1..Len(QUANTUM_VECTOR_DEFINITIONS) :
       Str(QUANTUM_VECTOR_DEFINITIONS[i].id) = vectorId
  THEN Str(QUANTUM_VECTOR_DEFINITIONS[
             CHOOSE i \in 1..Len(QUANTUM_VECTOR_DEFINITIONS) :
               Str(QUANTUM_VECTOR_DEFINITIONS[i].id) = vectorId].name)
  ELSE vectorId

\* lines 523-533 on the quantumAssessment object qa
AssessmentOf(qa) ==
  Obj([ vector |-> Coalesce(Get(qa, "vector"), NotAnalysed),
        severity |-> Coalesce(Get(qa, "severity"), NotAnalysed),
        urgency |-> Coalesce(Get(qa, "urgency"), NotAnalysed),
        notes |-> Coalesce(Get(qa, "notes"), NotAnalysed),
        vectorName |-> VectorNameOf(Coalesce(Get(qa, "vector"), NotAnalysed)) ])

getComponentQuantumAssessment(asset) ==
  IF Falsy(asset) \/ ~TypeofObject(asset) THEN defaultAssessment
  ELSE IF Falsy(Get(asset, "cryptoProperties"))
            \/ ~TypeofObject(Get(asset, "cryptoProperties"))
  THEN defaultAssessment
  ELSE IF Falsy(Get(Get(asset, "cryptoProperties"), "quantumAssessment"))
            \/ ~TypeofObject(Get(Get(asset, "cryptoProperties"), "quantumAssessment"))
  THEN defaultAssessment
  ELSE AssessmentOf(Get(Get(asset, "cryptoProperties"), "quantumAssessment"))

(***************************************************************************)
(* The ingestion-side normalizer: QuantumSecurityDefaults (Java, on        *)
(* Jackson nodes: isObject, isArray and isTextual are the node kinds).     *)
(***************************************************************************)
VECTOR_DEFINITIONS ==
  << [id |-> "hndl", name |-> "Harvest-now-decrypt-later threat"],
     [id |-> "authentication", name |-> "Authentication threat"],
     [id |-> "kml", name |-> "Key management and lifecycle"],
     [id |-> "thirdParty", name |-> "Dependency on third parties"],
     [id |-> "cryptoAgility", name |-> "Cryptographic agility"],
     [id |-> "governance", name |-> "Governance and compliance"] >>

\* defaultString(node, field)
defaultString(node, field) ==
  IF ~HasOwn(node, field) \/ ~IsString(Get(node, field))
  THEN Put(node, field, NotAnalysed)
  ELSE node

\* has(field) && get(field).isObject() ? get(field) : putObject(field)
ObjectOrNew(node, field) ==
  IF HasOwn(node, field) /\ IsObject(Get(node, field)) THEN Get(node, field)
  ELSE EmptyObj

defaultVector(id, name) ==
  Obj([ id |-> Str(id), name |-> Str(name), status |-> NotAnalysed,
        severity |-> NotAnalysed, urgency |-> NotAnalysed, notes |-> NotAnalysed ])

defaultVectors ==
  Arr([i \in 1..Len(VECTOR_DEFINITIONS) |->
         defaultVector(VECTOR_DEFINITIONS[i].id, VECTOR_DEFINITIONS[i].name)])

ensureQtrl(quantum) ==
  Put(quantum, "qtrl",
      defaultString(defaultString(defaultString(
        ObjectOrNew(quantum, "qtrl"), "level"), "name"), "conditions"))

\* lines 518-536: one node of the vectors array; merged is keyed by id
EnsureVectorNode(merged, node) ==
  IF ~IsObject(node) THEN merged
  ELSE LET id == IF HasOwn(node, "id") /\ IsString(Get(node, "id"))
                 THEN Get(node, "id") ELSE Null
           target == IF id # Null /\ MapHas(merged, id) THEN MapGet(merged, id)
                     ELSE node
           filled == defaultString(defaultString(defaultString(defaultString(
                       defaultString(defaultString(target, "id"), "name"),
                       "status"), "severity"), "urgency"), "notes")
       IN MapSet(merged, Get(filled, "id"), filled)

\* vectors.forEach
RECURSIVE EnsureVectorNodes(_, _)
EnsureVectorNodes(merged, nodes) ==
  IF nodes = <<>> THEN merged
  ELSE LET next == EnsureVectorNode(merged, Head(nodes))
       IN IF Computed(next) THEN EnsureVectorNodes(next, Tail(nodes)) ELSE next

\* The vectors array is built from the values of a HashMap, whose order is
\* not the insertion order: the result is kept as the map, and read as the
\* set of its values.
ensureVectors(quantum) ==
  IF ~HasOwn(quantum, "vectors") \/ ~IsArray(Get(quantum, "vectors"))
  THEN Put(quantum, "vectors", defaultVectors)
  ELSE IF Get(quantum, "vectors")[2] = <<>>
  THEN Put(quantum, "vectors", defaultVectors)
  ELSE Put(quantum, "vectors",
           Arr(MapValues(
             EnsureVectorNodes(
               [i \in 1..Len(defaultVectors[2]) |->
                  <<Get(defaultVectors[2][i], "id"), defaultVectors[2][i]>>],
               Get(quantum, "vectors")[2]))))

ensureRiskModel(quantum) ==
  LET riskModel == ObjectOrNew(quantum, "riskModel")
      withSeverity ==
        IF ~HasOwn(riskModel, "severityLevels")
             \/ ~IsArray(Get(riskModel, "severityLevels"))
        THEN Put(riskModel, "severityLevels", SEVERITY_LEVELS) ELSE riskModel
      withUrgency ==
        IF ~HasOwn(withSeverity, "urgencyLevels")
             \/ ~IsArray(Get(withSeverity, "urgencyLevels"))
        THEN Put(withSeverity, "urgencyLevels", SEVERITY_LEVELS) ELSE withSeverity
  IN Put(quantum, "riskModel", defaultString(withUrgency, "notes"))

ensureQuantumAssessment(cryptoProps) ==
  Put(cryptoProps, "quantumAssessment",
      defaultString(defaultString(defaultString(defaultString(
        ObjectOrNew(cryptoProps, "quantumAssessment"),
        "vector"), "severity"), "urgency"), "notes"))

\* lines 453-470: one node of the components array
EnsureComponentNode(node) ==
  IF ~IsObject(node) THEN node
  ELSE IF ~HasOwn(node, "type") \/ Get(node, "type") # CRYPTO_ASSET THEN node
  ELSE Put(node, "cryptoProperties",
           ensureQuantumAssessment(ObjectOrNew(node, "cryptoProperties")))

ensureComponentQuantumAssessments(root) ==
  IF ~HasOwn(root, "components") \/ ~IsArray(Get(root, "components")) THEN root
  ELSE Put(root, "components",
           Arr([i \in 1..Len(Get(root, "components")[2]) |->
                  EnsureComponentNode(Get(root, "components")[2][i])]))

\* ensurePresent(bom): the document after the call
ensurePresent(bom) ==
  IF ~IsObject(bom) THEN bom
  ELSE ensureComponentQuantumAssessments(
         Put(bom, "quantumSecurity",
             ensureRiskModel(ensureVectors(ensureQtrl(
               ObjectOrNew(bom, "quantumSecurity"))))))

(***************************************************************************)
(* Input documents.  Omit marks a key that the built object does not have. *)
(***************************************************************************)
MaxOccurrences == 2
MaxComponents  == 2
MaxVectors     == 2

Omit == Undefined
\* The object with the keys of f whose value is not Omit
Build(f) == Obj([k \in {x \in DOMAIN f : f[x] # Omit} |-> f[k]])

Occurrence(j) ==
  Obj([ location |-> Str("src/main/java/Crypto.java"), line |-> Num(10 * j),
        offset |-> Num(j), additionalContext |-> Str("javax.crypto.Cipher") ])

Occurrences(k) == Arr([j \in 1..k |-> Occurrence(j)])

EvidenceVariants ==
  { Omit, EmptyObj, Obj([occurrences |-> Str("none")]) }
    \cup { Obj([occurrences |-> Occurrences(k)]) : k \in 0..MaxOccurrences }

AlgorithmProps ==
  Obj([ assetType |-> Str("algorithm"),
        algorithmProperties |-> Obj([primitive |-> Str("hash")]) ])

RelatedProps(ref) ==
  Obj([ assetType |-> Str("related-crypto-material"),
        relatedCryptoMaterialProperties |->
          Obj([type |-> Str("secret-key"), algorithmRef |-> Str(ref)]) ])

ProtocolProps ==
  Obj([ assetType |-> Str("protocol"),
        protocolProperties |->
          Obj([ type |-> Str("tls"),
                cipherSuites |->
                  Arr(<< Obj([ name |-> Str("TLS_AES_128_GCM_SHA256"),
                               algorithms |-> Arr(<<Str("r1"), Str("r3")>>) ]),
                         Obj([ name |-> Str("TLS_NULL") ]),
                         Obj([ algorithms |-> Arr(<<Str("r1")>>) ]) >>) ]) ])

CertificateProps ==
  Obj([ assetType |-> Str("certificate"),
        certificateProperties |->
          Obj([ signatureAlgorithmRef |-> Str("r1"),
                subjectPublicKeyRef |-> Str("r3") ]) ])

Asset(ref, name, evidence, cryptoProperties) ==
  Build([ type |-> CRYPTO_ASSET, name |-> Str(name), evidence |-> evidence,
          cryptoProperties |-> cryptoProperties ]
        @@ ("bom-ref" :> ref))

Library == Obj(("bom-ref" :> Str("lib")) @@ [type |-> Str("library"), name |-> Str("bcprov")])
Typeless == Obj([name |-> Str("unknown")])

Components ==
  { Asset(Str("r1"), "AES128@r1", ev, RelatedProps("r2")) : ev \in EvidenceVariants }
    \cup { Asset(Str("r2"), "SHA256", Obj([occurrences |-> Occurrences(1)]), cp) :
             cp \in {AlgorithmProps, ProtocolProps, CertificateProps, Omit} }
    \cup { Asset(Str("r2"), "TLS@r2@1", Obj([occurrences |-> Occurrences(MaxOccurrences)]),
                 ProtocolProps),
           Asset(Omit, "key", Omit, RelatedProps("r1")),
           Library, Typeless }

RECURSIVE SeqsUpTo(_, _)
\* The sequences of at most n elements of S
SeqsUpTo(S, n) ==
  IF n = 0 THEN {<<>>}
  ELSE LET shorter == SeqsUpTo(S, n - 1)
       IN shorter \cup {Append(s, e) : s \in {t \in shorter : Len(t) = n - 1}, e \in S}

DependencyLists ==
  { Omit,
    Arr(<< Obj([ ref |-> Str("r1"), dependsOn |-> Arr(<<Str("r2"), Str("r3")>>),
                 provides |-> Arr(<<Str("r2")>>) ]),
           Obj([ ref |-> Str("r2"), dependsOn |-> Arr(<<Str("r1")>>),
                 provides |-> Str("r1") ]),
           Obj([ dependsOn |-> Arr(<<Str("r1")>>) ]) >>),
    Arr(<< Obj([ ref |-> Str("r1"), dependsOn |-> Arr(<<Str("r2"), Str("r2")>>) ]),
           Obj([ ref |-> Str("r1"), dependsOn |-> Str("r2"),
                 provides |-> Arr(<<Str("r3")>>) ]),
           Str("r2") >>) }

Header(present) ==
  [ bomFormat |-> IF "bomFormat" \in present THEN Str("CycloneDX") ELSE Omit,
    specVersion |-> IF "specVersion" \in present THEN Str("1.6") ELSE Omit,
    serialNumber |-> IF "serialNumber" \in present THEN Str("urn:uuid:1") ELSE Omit,
    version |-> IF "version" \in present THEN Num(1) ELSE Omit ]

AllFields == {MANDATORY_FIELDS[i] : i \in 1..Len(MANDATORY_FIELDS)}

\* Documents with every mandatory field, over the components
ComponentDocuments ==
  { Build(Header(AllFields) @@ [components |-> Arr(cs), dependencies |-> deps]) :
      cs \in SeqsUpTo(Components, MaxComponents), deps \in DependencyLists }

\* Documents over the subsets of the mandatory fields
HeaderDocuments ==
  { Build(Header(present) @@ [components |-> cs]) :
      present \in SUBSET AllFields,
      cs \in { Omit, Str("none"), Arr(<<>>), Arr(<<Library>>),
               Arr(<<Asset(Str("r1"), "AES128", Omit, AlgorithmProps)>>) } }

\* The values that are falsy and are not undefined
FalsyValues == { <<"boolean", FALSE>>, Num(0), Str(""), Null }

\* Documents whose fields are all there and hold a falsy value
FalsyDocuments ==
  { Obj([ bomFormat |-> v, specVersion |-> v, serialNumber |-> v, version |-> v,
          components |->
            Arr(<< Obj([type |-> v, name |-> Str("unknown")]),
                   Asset(Str("r1"), "AES128", Omit, v) >>) ]) :
      v \in FalsyValues }

\* What a caller holds when there is no parsed document
AbsentDocuments == { Null, Undefined, Str("CycloneDX"), Num(1) }

Documents ==
  ComponentDocuments \cup HeaderDocuments \cup AbsentDocuments \cup FalsyDocuments

(***************************************************************************)
(* The model object and the operations on it.                              *)
(***************************************************************************)
Model ==
  [ cbom |-> cbom, dependencies |-> dependencies, errors |-> errors,
    codeOrigin |-> codeOrigin, showResults |-> showResults,
    scanning |-> scanning, logged |-> console, threw |-> FALSE ]

Becomes(m) ==
  /\ cbom' = m.cbom
  /\ dependencies' = m.dependencies
  /\ errors' = m.errors
  /\ codeOrigin' = m.codeOrigin
  /\ showResults' = m.showResults
  /\ scanning' = m.scanning
  /\ console' = m.logged
  /\ thrown' = m.threw

InitModel ==
  /\ cbom = Null
  /\ dependencies = EmptyIndex
  /\ errors = {}
  /\ codeOrigin = [ gitUrl |-> Null, revision |-> Null, subfolder |-> Null,
                    commitID |-> Null, projectIdentifier |-> Null,
                    uploadedFileName |-> Null ]
  /\ showResults = FALSE
  /\ scanning = [isScanning |-> FALSE, liveDetections |-> <<>>]
  /\ console = <<>>
  /\ thrown = FALSE

NoResult == [op \in {} |-> Undefined]
Returned(op) == op \in DOMAIN ret

References == {Str("r1"), Str("r2"), Str("r3")}
FileName == Str("cbom.json")

(***************************************************************************)
(* SpecDocument: one document, taken from Documents, is handed to the      *)
(* validator, to the flattener, or loaded and then queried.                *)
(***************************************************************************)
DocInit == InitModel /\ arg \in Documents /\ ret = NoResult

DocValidate ==
  /\ ret = NoResult /\ ~showResults
  /\ LET v == checkCbomValidity(arg)
     IN /\ errors' = errors \cup v.signals
        /\ console' = v.logged
        /\ ret' = ("checkCbomValidity" :> v)
  /\ thrown' = FALSE
  /\ UNCHANGED <<cbom, dependencies, codeOrigin, showResults, scanning, arg>>

DocFlatten ==
  /\ ret = NoResult /\ ~showResults
  /\ LET r == getDetectionsFromCbom(arg)
     IN /\ errors' = errors \cup r.signals
        /\ ret' = ("getDetectionsFromCbom" :> r.detections)
  /\ thrown' = FALSE
  /\ UNCHANGED <<cbom, dependencies, codeOrigin, showResults, scanning, console, arg>>

DocLoad ==
  /\ ret = NoResult /\ ~showResults
  /\ Becomes(showResultFromUpload(Model, arg, FileName))
  /\ UNCHANGED <<arg, ret>>

DocQuery(bomRef) ==
  /\ showResults /\ ret = NoResult
  /\ ret' = ("getDependencies" :> [bomRef |-> bomRef,
                                   lists |-> getDependencies(dependencies, bomRef)])
  /\ thrown' = FALSE
  /\ UNCHANGED <<cbom, dependencies, errors, codeOrigin, showResults, scanning,
                 console, arg>>

DocNormalize ==
  /\ ret = NoResult /\ ~showResults
  /\ ret' = ("getQuantumSecurityFromCbom" :> getQuantumSecurityFromCbom(arg))
  /\ thrown' = FALSE
  /\ UNCHANGED <<cbom, dependencies, errors, codeOrigin, showResults, scanning,
                 console, arg>>

\* The model after getDetections() returned got
AfterGetDetections(m, got) ==
  [m EXCEPT !.cbom = got.cbom,
            !.scanning = got.scanning,
            !.errors = @ \cup got.signals,
            !.threw = got.threw]

\* The paths resolvePath is asked for on a document
DocumentPaths == { "version", "components.type", "components.cryptoProperties" }

DocResolve(path) ==
  /\ ret = NoResult /\ ~showResults
  /\ ret' = ("resolvePath" :> [path |-> path, values |-> resolvePath(arg, path)])
  /\ thrown' = FALSE
  /\ UNCHANGED <<cbom, dependencies, errors, codeOrigin, showResults, scanning,
                 console, arg>>

\* getDetections() on the loaded document
DocRead ==
  /\ showResults /\ ret = NoResult
  /\ Becomes(AfterGetDetections(Model, getDetections(cbom, scanning)))
  /\ ret' = ("getDetections" :> getDetections(cbom, scanning).detections)
  /\ UNCHANGED arg

\* What a caller writes into a detection it was handed
Written == Str("changed")

\* The occurrence object a detection carries: lines 367-369 put singleContext
\* itself, the occurrence object of the component, into the clone
SingleContext(d) == Get(Get(d.val, "evidence"), "occurrences")[2][1]

\* detection.name = Written, or detection.evidence.occurrences[0].line = Written
WriteInto(d, where) ==
  IF where = "name" THEN [d EXCEPT !.val = Put(@, "name", Written)]
  ELSE [d EXCEPT !.val =
          Put(@, "evidence",
              Put(Get(@, "evidence"), "occurrences",
                  Arr(<<Put(SingleContext(d), "line", Written)>>)))]

\* The component the detection d comes from, after the write: the component
\* is the detection when it was pushed as it is (line 374), and it holds the
\* occurrence object of the detection when it was cloned (lines 364-369)
ComponentAfterWrite(component, d, where) ==
  IF d.shared THEN WriteInto(d, where).val
  ELSE IF where = "name" THEN component
  ELSE Put(component, "evidence",
           Put(Get(component, "evidence"), "occurrences",
               Arr([ Get(Get(component, "evidence"), "occurrences")[2]
                       EXCEPT ![d.occ] = Put(SingleContext(d), "line", Written) ])))

DocumentAfterWrite(doc, d, where) ==
  Put(doc, "components",
      Arr([ Get(doc, "components")[2]
              EXCEPT ![d.src] = ComponentAfterWrite(@, d, where) ]))

\* A caller of getDetectionsFromCbom writes into detection n of the result
DocMutate(n, where) ==
  /\ Returned("getDetectionsFromCbom") /\ ~Returned("write")
  /\ n \in 1..Len(ret["getDetectionsFromCbom"])
  /\ where = "line" => /\ ret["getDetectionsFromCbom"][n].occ > 0
                       /\ IsObject(SingleContext(ret["getDetectionsFromCbom"][n]))
  /\ ret' = ret @@ ("write" :>
                      [ at |-> n,
                        where |-> where,
                        detections |->
                          [ ret["getDetectionsFromCbom"]
                              EXCEPT ![n] = WriteInto(@, where) ],
                        document |->
                          DocumentAfterWrite(arg, ret["getDetectionsFromCbom"][n], where) ])
  /\ UNCHANGED <<cbom, dependencies, errors, codeOrigin, showResults, scanning,
                 console, thrown, arg>>

DocNext ==
  \/ DocValidate
  \/ DocFlatten
  \/ DocLoad
  \/ DocNormalize
  \/ DocRead
  \/ \E path \in DocumentPaths : DocResolve(path)
  \/ \E n \in 1..(MaxComponents * MaxOccurrences), where \in {"name", "line"} :
       DocMutate(n, where)
  \/ \E bomRef \in References : DocQuery(bomRef)

SpecDocument == DocInit /\ [][DocNext]_vars

(***************************************************************************)
(* Properties of the flattener and of the validator, under SpecDocument.   *)
(***************************************************************************)
\* The components of the document in arg
ArgComponents ==
  IF IsObject(arg) /\ HasOwn(arg, "components") /\ IsArray(Get(arg, "components"))
  THEN Get(arg, "components")[2]
  ELSE <<>>

IsCryptoAsset(c) == IsObject(c) /\ HasOwn(c, "type") /\ Get(c, "type") = CRYPTO_ASSET

\* The evidence occurrences of a component; none when evidence or
\* evidence.occurrences is absent
OccurrencesOf(c) ==
  IF /\ HasOwn(c, "evidence")
     /\ IsObject(Get(c, "evidence"))
     /\ HasOwn(Get(c, "evidence"), "occurrences")
     /\ IsArray(Get(Get(c, "evidence"), "occurrences"))
  THEN Get(Get(c, "evidence"), "occurrences")[2]
  ELSE <<>>

\* The three shapes of a component without occurrences
ZeroOccurrences(c) ==
  \/ ~HasOwn(c, "evidence")
  \/ IsObject(Get(c, "evidence")) /\ ~HasOwn(Get(c, "evidence"), "occurrences")
  \/ /\ IsObject(Get(c, "evidence"))
     /\ Get(Get(c, "evidence"), "occurrences") = Arr(<<>>)

Flattened == ret["getDetectionsFromCbom"]

\* The positions, in the flattener's result, of the detections of component i
EmittedAt(i) == {n \in 1..Len(Flattened) : Flattened[n].src = i}

\* The j-th detection of component i
Emitted(i, j) ==
  Flattened[CHOOSE n \in EmittedAt(i) :
              Cardinality({m \in EmittedAt(i) : m < n}) = j - 1].val

\* d has the content of component c but for evidence.occurrences, which
\* holds the one occurrence o
CarriesOnly(d, c, o) ==
  /\ IsObject(d)
  /\ DOMAIN d[2] = DOMAIN c[2]
  /\ \A k \in DOMAIN c[2] \ {"evidence"} : d[2][k] = c[2][k]
  /\ IsObject(Get(d, "evidence"))
  /\ DOMAIN Get(d, "evidence")[2] = DOMAIN Get(c, "evidence")[2]
  /\ \A k \in DOMAIN Get(c, "evidence")[2] \ {"occurrences"} :
       Get(d, "evidence")[2][k] = Get(c, "evidence")[2][k]
  /\ Get(Get(d, "evidence"), "occurrences") = Arr(<<o>>)

\* C2: every cryptographic-asset component without occurrences (evidence
\* absent, evidence.occurrences absent, or evidence.occurrences empty) has
\* exactly one detection in the result of getDetectionsFromCbom, equal to
\* the component.
C2_ZeroOccurrencesOneDetection ==
  Returned("getDetectionsFromCbom") =>
    \A i \in 1..Len(ArgComponents) :
      IsCryptoAsset(ArgComponents[i]) /\ ZeroOccurrences(ArgComponents[i]) =>
        /\ Cardinality(EmittedAt(i)) = 1
        /\ Emitted(i, 1) = ArgComponents[i]

\* C3: every cryptographic-asset component with K >= 1 occurrences has
\* exactly K detections in the result of getDetectionsFromCbom; the j-th
\* carries the j-th occurrence alone and has otherwise the content of the
\* component.
C3_OneDetectionPerOccurrence ==
  Returned("getDetectionsFromCbom") =>
    \A i \in 1..Len(ArgComponents) :
      IsCryptoAsset(ArgComponents[i]) /\ Len(OccurrencesOf(ArgComponents[i])) >= 1 =>
        /\ Cardinality(EmittedAt(i)) = Len(OccurrencesOf(ArgComponents[i]))
        /\ \A j \in 1..Len(OccurrencesOf(ArgComponents[i])) :
             CarriesOnly(Emitted(i, j), ArgComponents[i],
                         OccurrencesOf(ArgComponents[i])[j])

\* A document whose second component has two occurrences has been flattened
C3_Witness ==
  /\ Returned("getDetectionsFromCbom")
  /\ Len(ArgComponents) = 2
  /\ IsCryptoAsset(ArgComponents[1])
  /\ IsCryptoAsset(ArgComponents[2])
  /\ Len(OccurrencesOf(ArgComponents[1])) = 1
  /\ Len(OccurrencesOf(ArgComponents[2])) = 2
  /\ Len(Flattened) = 3

\* The mandatory fields the document in arg lacks, in source order
MissingFields ==
  Concat([i \in 1..Len(MANDATORY_FIELDS) |->
            IF HasOwn(arg, MANDATORY_FIELDS[i]) THEN <<>>
            ELSE <<MANDATORY_FIELDS[i]>>])

IsMissingFieldMessage(m) ==
  \E i \in 1..Len(MANDATORY_FIELDS) :
    m = "Missing mandatory field: " \o MANDATORY_FIELDS[i] \o "."

\* C4: a document (an object) lacking some of bomFormat, specVersion,
\* serialNumber, version is reported invalid by checkCbomValidity:
\* InvalidCbom is signalled and the messages reported hold one "Missing
\* mandatory field" message per missing field, in the order of the fields,
\* also when the document has no components field.
C4_MissingFieldsReported ==
  Returned("checkCbomValidity") /\ IsObject(arg) /\ MissingFields # <<>> =>
    /\ ~ret["checkCbomValidity"].isValid
    /\ InvalidCbom \in errors
    /\ Len(console) >= Len(MissingFields)
    /\ \A i \in 1..Len(console) :
         IF i <= Len(MissingFields)
         THEN console[i] = "Missing mandatory field: " \o MissingFields[i] \o "."
         ELSE ~IsMissingFieldMessage(console[i])

Count(seq, x) == Cardinality({i \in 1..Len(seq) : seq[i] = x})

\* The pairs held by a map of the index
PairsOf(map) == UNION {{map[i][2][j] : j \in 1..Len(map[i][2])} : i \in 1..Len(map)}

IndexMaps ==
  {dependencies.dependsMap, dependencies.isDependedOnMap,
   dependencies.providesMap, dependencies.isProvidedByMap}

\* The references and the origin paths the index mentions
IndexReferences ==
  UNION {MapKeys(map) \cup {pair[1] : pair \in PairsOf(map)} : map \in IndexMaps}

IndexPaths == UNION {{pair[2] : pair \in PairsOf(map)} : map \in IndexMaps}

\* C6: for all references A, B and every origin path P, (B, P) occurs in
\* the depends-on index of A as many times as (A, P) occurs in the
\* is-depended-on index of B, and likewise between the provides index and
\* the is-provided-by index.
C6_IndexSymmetry ==
  \A A \in IndexReferences, B \in IndexReferences, P \in IndexPaths :
    /\ Count(MapGetOrEmpty(dependencies.dependsMap, A), <<B, P>>)
         = Count(MapGetOrEmpty(dependencies.isDependedOnMap, B), <<A, P>>)
    /\ Count(MapGetOrEmpty(dependencies.providesMap, A), <<B, P>>)
         = Count(MapGetOrEmpty(dependencies.isProvidedByMap, B), <<A, P>>)

\* A loaded document has given the index explicit edges of both kinds and
\* an edge found in a component
C6_Witness ==
  /\ showResults
  /\ Count(MapGetOrEmpty(dependencies.dependsMap, Str("r1")),
           <<Str("r2"), DEPENDS_ON>>) = 1
  /\ Count(MapGetOrEmpty(dependencies.isProvidedByMap, Str("r2")),
           <<Str("r1"), PROVIDES>>) = 1
  /\ Count(MapGetOrEmpty(dependencies.isDependedOnMap, Str("r2")),
           <<Str("r1"), dependencyPaths[11]>>) >= 1

\* The position of the components of arg that hold the bom-ref R
HoldersOf(R) ==
  {i \in 1..Len(ArgComponents) :
     HasOwn(ArgComponents[i], "bom-ref") /\ Get(ArgComponents[i], "bom-ref") = R}

\* The values resolvePath(C, P) returns
ResolvedValues(C, P) ==
  IF resolvePath(C, P) = Undefined THEN <<>> ELSE resolvePath(C, P)[2]

\* The targets of the depends-on entries of R that have the origin path P
TargetsAlong(R, P) ==
  Concat([n \in 1..Len(MapGetOrEmpty(dependencies.dependsMap, R)) |->
            IF MapGetOrEmpty(dependencies.dependsMap, R)[n][2] = P
            THEN <<MapGetOrEmpty(dependencies.dependsMap, R)[n][1]>>
            ELSE <<>>])

\* C7: after a load, for every cryptographic-asset component C whose
\* bom-ref R no other component holds and every catalog path P, the
\* depends-on index of R has exactly one entry (v, P) per value v of
\* resolvePath(C, P), whatever the number of evidence occurrences of C.
C7_OneEdgePerResolvedValue ==
  showResults /\ ~thrown =>
    \A i \in 1..Len(ArgComponents) :
      /\ IsCryptoAsset(ArgComponents[i])
      /\ HasOwn(ArgComponents[i], "bom-ref")
      /\ HoldersOf(Get(ArgComponents[i], "bom-ref")) = {i}
      => \A p \in 1..Len(dependencyPaths) :
           TargetsAlong(Get(ArgComponents[i], "bom-ref"), dependencyPaths[p])
             = ResolvedValues(ArgComponents[i], dependencyPaths[p])

\* The references of the detections of the loaded document
KnownAssets ==
  LET detections == getDetectionsFromCbom(cbom).detections
  IN {Get(detections[n].val, "bom-ref") : n \in 1..Len(detections)}

\* The entries of an index list whose reference is among known
KnownEntries(refPathList, known) ==
  Concat([n \in 1..Len(refPathList) |->
            IF refPathList[n][1] \in known THEN <<refPathList[n]>> ELSE <<>>])

\* componentList has the pairs of kept, in the same order, each with a
\* cryptographic asset holding the reference of the pair
SamePairs(componentList, kept) ==
  /\ Len(componentList) = Len(kept)
  /\ \A n \in 1..Len(componentList) :
       /\ IsCryptoAsset(componentList[n][1].val)
       /\ Get(componentList[n][1].val, "bom-ref") = kept[n][1]
       /\ componentList[n][2] = kept[n][2]

\* The list returned is the index list without its dangling entries
Resolves(componentList, refPathList, known) ==
  SamePairs(componentList, KnownEntries(refPathList, known))

\* The four lists returned resolve the four index lists of bomRef
AllResolve(lists, bomRef, known) ==
  /\ Resolves(lists.dependsComponentList,
              MapGetOrEmpty(dependencies.dependsMap, bomRef), known)
  /\ Resolves(lists.isDependedOnComponentList,
              MapGetOrEmpty(dependencies.isDependedOnMap, bomRef), known)
  /\ Resolves(lists.providesComponentList,
              MapGetOrEmpty(dependencies.providesMap, bomRef), known)
  /\ Resolves(lists.isProvidedByComponentList,
              MapGetOrEmpty(dependencies.isProvidedByMap, bomRef), known)

\* C9: each of the four lists of getDependencies(ref) holds only pairs
\* (asset, path) whose far endpoint is a known cryptographic asset; the
\* entries of the index whose far endpoint is not known are left out
\* without an error, and the others keep their order.
C9_DanglingEdgesDropped ==
  Returned("getDependencies") =>
    /\ ~thrown
    /\ AllResolve(ret["getDependencies"].lists, ret["getDependencies"].bomRef,
                  KnownAssets)

\* A query on r1 has dropped the dangling edge to r3 and kept the one to r2
C9_Witness ==
  /\ Returned("getDependencies")
  /\ ret["getDependencies"].bomRef = Str("r1")
  /\ Str("r3") \notin KnownAssets
  /\ Count(MapGetOrEmpty(dependencies.dependsMap, Str("r1")),
           <<Str("r3"), DEPENDS_ON>>) = 1
  /\ Len(ret["getDependencies"].lists.dependsComponentList) >= 2
  /\ Len(ret["getDependencies"].lists.dependsComponentList)
       < Len(MapGetOrEmpty(dependencies.dependsMap, Str("r1")))

AfterWrite == ret["write"]

\* C29: reading detections leaves the loaded document as it was handed in:
\* after the load, which reads them in setDependenciesMap, and after any
\* getDetections that follows, model.cbom equals the document loaded, the
\* names of its components included.
C29_ReadsLeaveDocument ==
  showResults /\ ~thrown /\ IsObject(arg) => cbom = arg

\* The messages checkCbomValidity collected
Messages == ret["checkCbomValidity"].errorMessages

\* The object has the key, whatever value it holds
Owns(v, k) == IsObject(v) /\ k \in DOMAIN v[2]

\* The components that own the key, by position
Owners(k) == {i \in 1..Len(ArgComponents) : Owns(ArgComponents[i], k)}

\* C28: presence is ownership of the key, not truthiness of the value.  A
\* mandatory field the document owns, a type or a cryptoProperties a
\* component owns, is not reported missing, also when its value is false, 0,
\* "" or null; resolvePath returns for an owned key with such a value the
\* one-element sequence holding the value, and through the components one
\* value per component that owns the key.
C28_PresenceIsOwnership ==
  /\ Returned("checkCbomValidity") /\ IsObject(arg) =>
       /\ \A i \in 1..Len(MANDATORY_FIELDS) :
            Owns(arg, MANDATORY_FIELDS[i]) =>
              Count(Messages, "Missing mandatory field: " \o MANDATORY_FIELDS[i] \o ".") = 0
       /\ \A i \in Owners("type") :
            Count(Messages, "Component at index " \o ToString(i - 1)
                              \o " is missing mandatory field: type.") = 0
       /\ \A i \in Owners("cryptoProperties") :
            Count(Messages, "Component at index " \o ToString(i - 1)
                              \o " is missing mandatory field: cryptoProperties.") = 0
  /\ Returned("resolvePath") /\ IsObject(arg) =>
       /\ ret["resolvePath"].path = "version" /\ Owns(arg, "version") =>
            ret["resolvePath"].values = Arr(<<arg[2]["version"]>>)
       /\ ret["resolvePath"].path = "components.type" /\ ArgComponents # <<>> =>
            /\ Len(ret["resolvePath"].values[2]) = Cardinality(Owners("type"))
            /\ \A i \in Owners("type") :
                 \E n \in 1..Len(ret["resolvePath"].values[2]) :
                   ret["resolvePath"].values[2][n] = ArgComponents[i][2]["type"]

\* resolvePath has returned the type null and the type of the asset for a
\* document whose fields hold null
C28_Witness ==
  /\ Returned("resolvePath")
  /\ ret["resolvePath"].path = "components.type"
  /\ IsObject(arg)
  /\ Owns(arg, "version") /\ Get(arg, "version") = Null
  /\ ret["resolvePath"].values = Arr(<<Null, Str("cryptographic-asset")>>)

Detections == ret["getDetections"]

\* The part of the name before its first '@'; the name when it has none
BeforeFirstAt(name) ==
  IF \E i \in 1..Len(name) : SubSeq(name, i, i) = "@"
  THEN SubSeq(name, 1, (CHOOSE i \in 1..Len(name) :
                          /\ SubSeq(name, i, i) = "@"
                          /\ \A j \in 1..(i - 1) : SubSeq(name, j, j) # "@") - 1)
  ELSE name

\* C25: every detection getDetections returns has, as name, the name of its
\* component up to the first '@', and that name itself when it holds no '@';
\* the post-pass applied to what it returned changes nothing.
C25_NamesStripped ==
  Returned("getDetections") /\ ~thrown =>
    /\ \A n \in 1..Len(Detections) :
         IsString(Get(ArgComponents[Detections[n].src], "name")) =>
           Get(Detections[n].val, "name")
             = Str(BeforeFirstAt(Get(ArgComponents[Detections[n].src], "name")[2]))
    /\ removeBomRefFromDetectionNames(Detections).detections = Detections

\* getDetections has returned the detections of an asset named TLS@r2@1
\* and of an asset named SHA256
C25_Witness ==
  /\ Returned("getDetections") /\ ~thrown
  /\ \E n \in 1..Len(Detections) :
       /\ Get(ArgComponents[Detections[n].src], "name") = Str("TLS@r2@1")
       /\ Get(Detections[n].val, "name") = Str("TLS")
  /\ \E n \in 1..Len(Detections) :
       /\ Get(ArgComponents[Detections[n].src], "name") = Str("SHA256")
       /\ Get(Detections[n].val, "name") = Str("SHA256")

LacksType(c) == IsObject(c) /\ "type" \notin DOMAIN c[2]
LacksCryptoProperties(c) == IsCryptoAsset(c) /\ "cryptoProperties" \notin DOMAIN c[2]

\* The positions of the components with a defect
Offending ==
  {i \in 1..Len(ArgComponents) :
     LacksType(ArgComponents[i]) \/ LacksCryptoProperties(ArgComponents[i])}

\* The message for the component at position i; indices count from 0
OffenceMessage(i) ==
  "Component at index " \o ToString(i - 1) \o " is missing mandatory field: "
    \o (IF LacksType(ArgComponents[i]) THEN "type." ELSE "cryptoProperties.")

ComponentsNotASequence ==
  HasOwn(arg, "components") /\ ~IsArray(Get(arg, "components"))

\* C24: checkCbomValidity signals InvalidCbom when components is there and is
\* no sequence, when a component lacks type and when a cryptographic asset
\* lacks cryptoProperties; the messages reported hold exactly one message per
\* offending component, naming its index; a document with the four mandatory
\* fields and none of these defects is not signalled invalid.
C24_ComponentDefects ==
  Returned("checkCbomValidity") /\ IsObject(arg) =>
    /\ ComponentsNotASequence => InvalidCbom \in errors
    /\ Offending # {} => InvalidCbom \in errors
    /\ \A i \in Offending : Count(console, OffenceMessage(i)) = 1
    /\ Cardinality({n \in 1..Len(console) :
                      ~IsMissingFieldMessage(console[n])}) = Cardinality(Offending)
         \/ ComponentsNotASequence
    /\ MissingFields = <<>> /\ Offending = {} /\ ~ComponentsNotASequence
         => InvalidCbom \notin errors

\* The validator has run on a document with every mandatory field, a
\* component without type and an asset without cryptoProperties
C24_Witness ==
  /\ Returned("checkCbomValidity")
  /\ MissingFields = <<>>
  /\ Len(ArgComponents) = 2
  /\ LacksType(ArgComponents[1])
  /\ LacksCryptoProperties(ArgComponents[2])
  /\ console = << "Component at index 0 is missing mandatory field: type.",
                  "Component at index 1 is missing mandatory field: cryptoProperties." >>

\* The component has a type and it is not cryptographic-asset
IsOtherType(c) ==
  IsObject(c) /\ "type" \in DOMAIN c[2] /\ c[2]["type"] # Str("cryptographic-asset")

\* The component is a cryptographic asset with cryptoProperties
IsRegularAsset(c) == IsCryptoAsset(c) /\ "cryptoProperties" \in DOMAIN c[2]

\* C23: components of another type raise IgnoredComponent and nothing else:
\* IgnoredComponent is signalled exactly when the document has such a
\* component, and a document with the four mandatory fields whose components
\* are regular assets or components of another type, at least one of these,
\* gets IgnoredComponent and not InvalidCbom.
C23_OtherTypesOnlyIgnored ==
  Returned("checkCbomValidity") /\ IsObject(arg) =>
    /\ IgnoredComponent \in errors
         <=> \E i \in 1..Len(ArgComponents) : IsOtherType(ArgComponents[i])
    /\ ( /\ MissingFields = <<>>
         /\ \A i \in 1..Len(ArgComponents) :
              IsOtherType(ArgComponents[i]) \/ IsRegularAsset(ArgComponents[i])
         /\ \E i \in 1..Len(ArgComponents) : IsOtherType(ArgComponents[i]) )
       => errors = {IgnoredComponent}

\* The validator has run on a document with every mandatory field, a
\* library and a regular asset
C23_Witness ==
  /\ Returned("checkCbomValidity")
  /\ MissingFields = <<>>
  /\ Len(ArgComponents) = 2
  /\ IsOtherType(ArgComponents[1])
  /\ IsRegularAsset(ArgComponents[2])
  /\ errors = {IgnoredComponent}

\* Detection d is made of component c: it has the name and the bom-ref of c
\* and, when it carries an occurrence, occurrence number d.occ of c
MadeOf(d, c) ==
  /\ IsCryptoAsset(c)
  /\ Get(d.val, "name") = Get(c, "name")
  /\ Get(d.val, "bom-ref") = Get(c, "bom-ref")
  /\ d.occ > 0 =>
       /\ d.occ <= Len(OccurrencesOf(c))
       /\ Get(Get(d.val, "evidence"), "occurrences") = Arr(<<OccurrencesOf(c)[d.occ]>>)

\* C22: the result of getDetectionsFromCbom follows the order of the
\* components and, within a component, the order of its occurrences: of two
\* detections the earlier one comes from an earlier component, or from the
\* same component and an earlier occurrence; every detection is made of the
\* component it is counted under, and a component that is not a
\* cryptographic asset has no detection.
C22_SourceOrder ==
  Returned("getDetectionsFromCbom") =>
    /\ \A m, n \in 1..Len(Flattened) :
         m < n => \/ Flattened[m].src < Flattened[n].src
                  \/ /\ Flattened[m].src = Flattened[n].src
                     /\ Flattened[m].occ < Flattened[n].occ
    /\ \A n \in 1..Len(Flattened) :
         /\ Flattened[n].src \in 1..Len(ArgComponents)
         /\ MadeOf(Flattened[n], ArgComponents[Flattened[n].src])
    /\ \A i \in 1..Len(ArgComponents) :
         ~IsCryptoAsset(ArgComponents[i]) => EmittedAt(i) = {}

\* The flattener has run on a library followed by an asset with two
\* occurrences, and on nothing else
C22_Witness ==
  /\ Returned("getDetectionsFromCbom")
  /\ Len(ArgComponents) = MaxComponents
  /\ ArgComponents[1] = Library
  /\ Len(Flattened) = MaxOccurrences
  /\ \A n \in 1..Len(Flattened) : Flattened[n].src = MaxComponents /\ Flattened[n].occ = n

\* C21: the detections of a component with occurrences are deep clones: after
\* a write to a field of such a detection, or to a field of its single
\* occurrence, every other detection is what it was, the document is what it
\* was, and a later getDetectionsFromCbom of the document returns what the
\* first one returned.
C21_DetectionsAreDeepClones ==
  Returned("write") /\ Flattened[AfterWrite.at].occ > 0 =>
    /\ \A m \in 1..Len(Flattened) :
         m # AfterWrite.at => AfterWrite.detections[m] = Flattened[m]
    /\ AfterWrite.document = arg
    /\ getDetectionsFromCbom(AfterWrite.document).detections = Flattened

\* The entries of dependencies of the document in arg
ArgDependencies ==
  IF IsObject(arg) /\ HasOwn(arg, "dependencies") /\ IsArray(Get(arg, "dependencies"))
  THEN Get(arg, "dependencies")[2]
  ELSE <<>>

\* The targets the entries with ref R list under the field, entry by entry
ListedTargets(R, field) ==
  Concat([i \in 1..Len(ArgDependencies) |->
            IF /\ IsObject(ArgDependencies[i])
               /\ HasOwn(ArgDependencies[i], "ref")
               /\ Get(ArgDependencies[i], "ref") = R
               /\ IsArray(Get(ArgDependencies[i], field))
            THEN Get(ArgDependencies[i], field)[2]
            ELSE <<>>])

\* The targets, each with the origin
WithOrigin(targets, origin) == [n \in 1..Len(targets) |-> <<targets[n], origin>>]

\* C20: after a load, the depends-on entries of a reference R with origin
\* "dependencies.dependsOn" are the dependsOn targets of the entries with ref
\* R, one each and in order, and the provides entries of R are the provides
\* targets of those entries with origin "dependencies.provides" and nothing
\* else; an entry without ref, or whose dependsOn or provides is no sequence,
\* adds no such edge.
C20_ExplicitEdges ==
  showResults /\ ~thrown =>
    \A R \in References \cup MapKeys(dependencies.dependsMap)
               \cup MapKeys(dependencies.providesMap) :
      /\ TargetsAlong(R, "dependencies.dependsOn") = ListedTargets(R, "dependsOn")
      /\ MapGetOrEmpty(dependencies.providesMap, R)
           = WithOrigin(ListedTargets(R, "provides"), "dependencies.provides")

\* A document has been loaded whose two entries for r1 list r2 twice under
\* dependsOn, a string under dependsOn, and r3 under provides
C20_Witness ==
  /\ showResults /\ ~thrown
  /\ Len(ArgDependencies) = 3
  /\ ArgDependencies[3] = Str("r2")
  /\ Get(ArgDependencies[2], "dependsOn") = Str("r2")
  /\ TargetsAlong(Str("r1"), "dependencies.dependsOn") = <<Str("r2"), Str("r2")>>
  /\ MapGetOrEmpty(dependencies.providesMap, Str("r1"))
       = <<<<Str("r3"), "dependencies.provides">>>>

\* C14: for a null, undefined or non-object document nothing throws: the
\* load returns normally, getDetectionsFromCbom returns the empty list and
\* getQuantumSecurityFromCbom returns the default block.
C14_AbsentDocumentShortCircuits ==
  arg \in AbsentDocuments =>
    /\ ~thrown
    /\ Returned("getDetectionsFromCbom") => ret["getDetectionsFromCbom"] = <<>>
    /\ Returned("getQuantumSecurityFromCbom")
         => ret["getQuantumSecurityFromCbom"] = defaultQuantumSecurity

(***************************************************************************)
(* SpecPath: resolvePath(obj, path) on one object and one path.  The       *)
(* objects are protocol properties: cipherSuites is a cipher suite or a    *)
(* list of them, a cipher suite has algorithms, a reference or a list of   *)
(* references; any of them may be missing or be a string, and the object   *)
(* may itself be a list of such objects.                                   *)
(***************************************************************************)
MaxBranches == 2

\* What a path ends on
PathLeaves ==
  { Str("r1"), Null, Arr(<<>>), Arr(<<Str("r1"), Str("r2")>>) }

\* What may be where an object with the key is expected
Holders(key, values) ==
  { EmptyObj, Str("none") } \cup { Obj(key :> v) : v \in values }

\* The lists of up to MaxBranches elements of S
Branches(S) == { Arr(b) : b \in SeqsUpTo(S, MaxBranches) }

CipherSuites == Holders("algorithms", PathLeaves)

ProtocolObjects == Holders("cipherSuites", CipherSuites \cup Branches(CipherSuites))

PathObjects ==
  ProtocolObjects \cup Branches(Holders("cipherSuites", CipherSuites))

Paths == { "cipherSuites", "cipherSuites.algorithms", "cipherSuites.algorithms.ref" }

PathInit ==
  /\ InitModel
  /\ arg \in [obj : PathObjects, path : Paths]
  /\ ret = NoResult

PathResolve ==
  /\ ret = NoResult
  /\ ret' = ("resolvePath" :> resolvePath(arg.obj, arg.path))
  /\ UNCHANGED <<cbom, dependencies, errors, codeOrigin, showResults, scanning,
                 console, thrown, arg>>

PathNext == PathResolve

SpecPath == PathInit /\ [][PathNext]_vars

(***************************************************************************)
(* Properties of resolvePath, under SpecPath.                              *)
(***************************************************************************)
Resolved == ret["resolvePath"]

\* The segments of the path in arg
Segments == Split(arg.path, ".")

\* Every way down the segments from v ends on a plain object that lacks the
\* next segment, and there is such a way
RECURSIVE SegmentMissing(_, _)
SegmentMissing(v, segments) ==
  /\ segments # <<>>
  /\ CASE IsObject(v) ->
            IF Head(segments) \in DOMAIN v[2]
            THEN SegmentMissing(v[2][Head(segments)], Tail(segments))
            ELSE TRUE
       [] IsArray(v) ->
            /\ v[2] # <<>>
            /\ \A i \in 1..Len(v[2]) : SegmentMissing(v[2][i], segments)
       [] OTHER -> FALSE

\* C18: when a segment of the path is missing on the plain object reached,
\* also when the plain objects reached are the elements of a sequence on the
\* way, resolvePath returns undefined and not an empty sequence.
C18_MissingSegmentIsUndefined ==
  Returned("resolvePath") /\ SegmentMissing(arg.obj, Segments) =>
    Resolved = Undefined

\* The leaves the segments lead to from v, over all elements of the
\* sequences on the way, in order; the elements of a leaf that is a sequence
RECURSIVE LeavesAlong(_, _)
LeavesAlong(v, segments) ==
  IF segments = <<>>
  THEN IF IsArray(v) THEN v[2] ELSE <<v>>
  ELSE IF IsArray(v)
  THEN Concat([i \in 1..Len(v[2]) |-> LeavesAlong(v[2][i], segments)])
  ELSE IF IsObject(v) /\ Head(segments) \in DOMAIN v[2]
  THEN LeavesAlong(v[2][Head(segments)], Tail(segments))
  ELSE <<>>

\* C19: when resolvePath returns a sequence, it is the sequence of the leaves
\* the path leads to: as many as there are matching leaves over all elements
\* of the sequences on the way, a leaf that is no sequence once, a leaf that
\* is a sequence by its elements, all in the order of the elements.
C19_ResultIsTheLeaves ==
  Returned("resolvePath") /\ Resolved # Undefined =>
    /\ IsArray(Resolved)
    /\ Len(Resolved[2]) = Len(LeavesAlong(arg.obj, Segments))
    /\ Resolved[2] = LeavesAlong(arg.obj, Segments)

\* resolvePath has gone through a list of two cipher suites, one with a
\* single reference and one with a list of two
C19_Witness ==
  /\ Returned("resolvePath")
  /\ arg.path = "cipherSuites.algorithms"
  /\ Get(arg.obj, "cipherSuites")
       = Arr(<< Obj("algorithms" :> Str("r1")),
                Obj("algorithms" :> Arr(<<Str("r1"), Str("r2")>>)) >>)
  /\ Resolved = Arr(<<Str("r1"), Str("r1"), Str("r2")>>)

(***************************************************************************)
(* SpecQuantum: one document, taken from QuantumDocuments, is handed to    *)
(* the display-side normalizer and to the ingestion-side normalizer.       *)
(***************************************************************************)
VectorShapes ==
  { Obj([id |-> Str("hndl"), status |-> Str("vulnerable"), severity |-> Str("high")]),
    Obj([id |-> Str("kml"), name |-> Str("Keys"), notes |-> Num(5)]),
    Obj([id |-> Str("custom"), name |-> Str("Custom"), urgency |-> Str("low")]),
    Obj([name |-> Str("hndl"), status |-> Str("safe")]),
    Obj([name |-> Str("Third Party"), severity |-> Str("low")]),
    Obj([id |-> Num(1)]),
    EmptyObj,
    Null,
    Str("hndl") }

VectorLists ==
  { Omit, Str("none") } \cup { Arr(vs) : vs \in SeqsUpTo(VectorShapes, MaxVectors) }

QtrlShapes ==
  { Omit, Str("2"),
    Obj([level |-> Num(0), name |-> Str("QTRL-0")]),
    Obj([level |-> Str("2"), name |-> Str("QTRL-2"), conditions |-> Str("hybrid")]) }

RiskModelShapes ==
  { Omit, Str("none"),
    Obj([severityLevels |-> Arr(<<Str("high"), Str("low")>>), notes |-> Str("custom")]),
    Obj([severityLevels |-> Str("high"), urgencyLevels |-> Arr(<<>>)]),
    Obj([urgencyLevels |-> Num(3), notes |-> Str("custom")]) }

QuantumBlocks ==
  { Omit, Null, Str("none") }
    \cup { Build([qtrl |-> q, vectors |-> vs, riskModel |-> rm]) :
             q \in QtrlShapes, vs \in VectorLists, rm \in RiskModelShapes }

\* The shapes of cryptoProperties.quantumAssessment
AssessmentShapes ==
  { Omit, Null, Str("hndl") }
    \cup { Build([vector |-> v, severity |-> sv, urgency |-> u, notes |-> n]) :
             v \in {Omit, Null, Str("hndl"), Str("thirdParty"), Str("custom")},
             sv \in {Omit, Str("high")},
             u \in {Omit, Str("low")},
             n \in {Omit, Str("RSA-2048 key exchange")} }

\* The assets handed to getComponentQuantumAssessment
AssessedAssets ==
  { Null, Str("r1"),
    Asset(Str("r1"), "RSA", Omit, Omit),
    Asset(Str("r1"), "RSA", Omit, Str("none")) }
    \cup { Asset(Str("r1"), "RSA", Omit,
                 Build([assetType |-> Str("algorithm"), quantumAssessment |-> qa])) :
             qa \in AssessmentShapes }

\* The quantumSecurity block of the documents that carry an assessed asset
AssessedBlock ==
  Obj([ vectors |-> Arr(<< Obj([id |-> Str("custom"), name |-> Str("Custom"),
                                urgency |-> Str("low")]),
                           Obj([id |-> Str("hndl"), status |-> Str("vulnerable"),
                                severity |-> Str("high")]) >>) ])

QuantumDocuments ==
  { Null, Str("{}") }
    \cup { Build(Header(AllFields) @@ [quantumSecurity |-> qs]) : qs \in QuantumBlocks }
    \cup { Build(Header(AllFields)
                   @@ [quantumSecurity |-> AssessedBlock, components |-> Arr(<<asset>>)]) :
             asset \in AssessedAssets }

QuantumInit == InitModel /\ arg \in QuantumDocuments /\ ret = NoResult

\* The display side: getQuantumSecurity(cbom)
QuantumNormalize ==
  /\ ~Returned("getQuantumSecurityFromCbom")
  /\ ret' = ret @@ ("getQuantumSecurityFromCbom" :> getQuantumSecurityFromCbom(arg))
  /\ UNCHANGED <<cbom, dependencies, errors, codeOrigin, showResults, scanning,
                 console, thrown, arg>>

\* The ingestion side: QuantumSecurityDefaults.ensurePresent(bom)
QuantumEnsure ==
  /\ ~Returned("ensurePresent")
  /\ ret' = ret @@ ("ensurePresent" :> ensurePresent(arg))
  /\ UNCHANGED <<cbom, dependencies, errors, codeOrigin, showResults, scanning,
                 console, thrown, arg>>

\* The document with the block put in as its quantumSecurity
WithQuantumSecurity(doc, block) ==
  Put(IF IsObject(doc) THEN doc ELSE EmptyObj, "quantumSecurity",
      Obj([qtrl |-> block.qtrl, vectors |-> block.vectors,
           riskModel |-> block.riskModel]))

\* The display side again, on the document holding the block it returned
QuantumRenormalize ==
  /\ Returned("getQuantumSecurityFromCbom")
  /\ ~Returned("renormalize")
  /\ ret' = ret @@ ("renormalize" :>
                      getQuantumSecurityFromCbom(
                        WithQuantumSecurity(arg, ret["getQuantumSecurityFromCbom"])))
  /\ UNCHANGED <<cbom, dependencies, errors, codeOrigin, showResults, scanning,
                 console, thrown, arg>>

\* The component of the document in arg that is assessed
ArgAsset == Get(arg, "components")[2][1]

HasAsset ==
  IsObject(arg) /\ IsArray(Get(arg, "components")) /\ Get(arg, "components")[2] # <<>>

\* getComponentQuantumAssessment(asset) on a component of the document
QuantumAssess ==
  /\ HasAsset
  /\ ~Returned("getComponentQuantumAssessment")
  /\ ret' = ret @@ ("getComponentQuantumAssessment" :>
                      getComponentQuantumAssessment(ArgAsset))
  /\ UNCHANGED <<cbom, dependencies, errors, codeOrigin, showResults, scanning,
                 console, thrown, arg>>

\* The asset with the assessment put in as cryptoProperties.quantumAssessment
WithAssessment(asset, assessment) ==
  IF IsObject(asset) /\ IsObject(Get(asset, "cryptoProperties"))
  THEN Put(asset, "cryptoProperties",
           Put(Get(asset, "cryptoProperties"), "quantumAssessment", assessment))
  ELSE Put(IF IsObject(asset) THEN asset ELSE EmptyObj, "cryptoProperties",
           Obj([quantumAssessment |-> assessment]))

\* getComponentQuantumAssessment again, on the asset holding the assessment
\* it returned
QuantumReassess ==
  /\ Returned("getComponentQuantumAssessment")
  /\ ~Returned("reassess")
  /\ ret' = ret @@ ("reassess" :>
                      getComponentQuantumAssessment(
                        WithAssessment(ArgAsset, ret["getComponentQuantumAssessment"])))
  /\ UNCHANGED <<cbom, dependencies, errors, codeOrigin, showResults, scanning,
                 console, thrown, arg>>

QuantumNext ==
  \/ QuantumNormalize
  \/ QuantumEnsure
  \/ QuantumRenormalize
  \/ QuantumAssess
  \/ QuantumReassess

SpecQuantum == QuantumInit /\ [][QuantumNext]_vars

(***************************************************************************)
(* Properties of the normalizers, under SpecQuantum.                       *)
(***************************************************************************)
\* The vectors of the document in arg, when they are a list
ArgVectors == Get(Get(arg, "quantumSecurity"), "vectors")

HasVectorList ==
  IsObject(arg) /\ IsObject(Get(arg, "quantumSecurity")) /\ IsArray(ArgVectors)

Normalized == ret["getQuantumSecurityFromCbom"]
Renormalized == ret["renormalize"]
Assessed == ret["getComponentQuantumAssessment"]
Reassessed == ret["reassess"]

\* The ids of a list of vectors
IdsOf(vectors) == {Get(vectors[2][i], "id") : i \in 1..Len(vectors[2])}

CanonicalIdValues == {Str(id) : id \in CanonicalIds}

\* C1: whatever list quantumSecurity.vectors is, the normalized vectors are
\* exactly six, one per canonical id; an input vector matching no canonical
\* id is dropped.
C1_NormalizerClosure ==
  Returned("getQuantumSecurityFromCbom") /\ HasVectorList =>
    /\ Len(Normalized.vectors[2]) = 6
    /\ IdsOf(Normalized.vectors) = CanonicalIdValues

\* The block ensurePresent leaves in the document
Ensured == Get(ret["ensurePresent"], "quantumSecurity")

\* The vector of the list that has the id
VectorOf(vectors, id) ==
  vectors[2][CHOOSE i \in 1..Len(vectors[2]) : Get(vectors[2][i], "id") = id]

SameFields(a, b, fields) == \A f \in fields : Get(a, f) = Get(b, f)

\* C10: ensurePresent and getQuantumSecurityFromCbom give the same block for
\* every document: the same qtrl values, the same vector ids, the same
\* name, status, severity, urgency and notes for each vector, and the same
\* riskModel.
C10_NormalizersAgree ==
  Returned("getQuantumSecurityFromCbom") /\ Returned("ensurePresent") /\ IsObject(arg) =>
    /\ SameFields(Normalized.qtrl, Get(Ensured, "qtrl"), {"level", "name", "conditions"})
    /\ IdsOf(Normalized.vectors) = IdsOf(Get(Ensured, "vectors"))
    /\ \A id \in IdsOf(Normalized.vectors) :
         SameFields(VectorOf(Normalized.vectors, id),
                    VectorOf(Get(Ensured, "vectors"), id),
                    {"name", "status", "severity", "urgency", "notes"})
    /\ SameFields(Normalized.riskModel, Get(Ensured, "riskModel"),
                  {"severityLevels", "urgencyLevels", "notes"})

\* The input vectors that are objects, by position
ObjectVectors == {i \in 1..Len(ArgVectors[2]) : IsObject(ArgVectors[2][i])}

\* The key an input vector is filed under: its id, else its name
KeyOf(v) == Coalesce(Get(v, "id"), Get(v, "name"))

\* Input vector i has a canonical id and no other input vector is filed
\* under that id
AloneOnCanonicalId(i) ==
  /\ i \in ObjectVectors
  /\ Get(ArgVectors[2][i], "id") \in CanonicalIdValues
  /\ \A j \in ObjectVectors \ {i} :
       KeyOf(ArgVectors[2][j]) # Get(ArgVectors[2][i], "id")

AssessmentFields == {"status", "severity", "urgency", "notes"}

\* The entry of vectors for the id of input holds every string-valued
\* assessment field of input
KeepsSupplied(vectors, input) ==
  /\ Get(input, "id") \in IdsOf(vectors)
  /\ \A f \in AssessmentFields :
       IsString(Get(input, f)) =>
         Get(VectorOf(vectors, Get(input, "id")), f) = Get(input, f)

\* C11: an input vector with a canonical id keeps its string-valued
\* status, severity, urgency and notes in the normalized entry of that id,
\* in the result of getQuantumSecurityFromCbom and in the result of
\* ensurePresent.
C11_SuppliedValuesKept ==
  HasVectorList =>
    \A i \in 1..Len(ArgVectors[2]) :
      AloneOnCanonicalId(i) =>
        /\ Returned("getQuantumSecurityFromCbom") =>
             KeepsSupplied(Normalized.vectors, ArgVectors[2][i])
        /\ Returned("ensurePresent") =>
             KeepsSupplied(Get(Ensured, "vectors"), ArgVectors[2][i])

\* The canonical ids whose display name is the name of v, letter case aside
IdsNamedLike(v) ==
  IF IsString(Get(v, "name"))
  THEN { Str(QUANTUM_VECTOR_DEFINITIONS[i].id) :
           i \in { j \in 1..Len(QUANTUM_VECTOR_DEFINITIONS) :
                     toLowerCase(QUANTUM_VECTOR_DEFINITIONS[j].name)
                       = toLowerCase(Get(v, "name")[2]) } }
  ELSE {}

\* The canonical ids the vector v is matched to: by its id, else by its name
MatchedIds(v) ==
  IF Get(v, "id") \in CanonicalIdValues THEN {Get(v, "id")}
  ELSE IF IsNullish(Get(v, "id")) THEN IdsNamedLike(v)
  ELSE {}

\* The entry of the id carries the assessment strings of the input vector
MergedInto(vectors, id, input) ==
  \A f \in AssessmentFields :
    IsString(Get(input, f)) => Get(VectorOf(vectors, id), f) = Get(input, f)

\* C13: an input vector whose id is a canonical id, or that has no id and
\* whose name is a canonical display name up to letter case, is merged into
\* that canonical entry and adds no entry of its own: no entry of the result
\* outside the catalog has its id or name as id, and when it is the only
\* vector of the list the canonical entry carries its assessment strings.
C13_MatchedByIdElseName ==
  Returned("getQuantumSecurityFromCbom") /\ HasVectorList =>
    \A i \in ObjectVectors : \A id \in MatchedIds(ArgVectors[2][i]) :
      /\ KeyOf(ArgVectors[2][i]) \in IdsOf(Normalized.vectors)
           => KeyOf(ArgVectors[2][i]) \in CanonicalIdValues
      /\ Len(ArgVectors[2]) = 1 => MergedInto(Normalized.vectors, id, ArgVectors[2][i])

ArgQuantum == Get(arg, "quantumSecurity")
ArgRiskModel == Get(ArgQuantum, "riskModel")

\* The object v without the key k
Without(v, k) == Obj([x \in DOMAIN v[2] \ {k} |-> v[2][x]])

\* What the display side returns when the level of quantumSecurity is absent
WithoutLevel(level) ==
  getQuantumSecurityFromCbom(Put(arg, "quantumSecurity", Without(ArgQuantum, level)))

\* What the display side returns when the scale of riskModel is absent
WithoutScale(scale) ==
  getQuantumSecurityFromCbom(
    Put(arg, "quantumSecurity",
        Put(ArgQuantum, "riskModel", Without(ArgRiskModel, scale))))

\* What the display side returns when the vectors list has its objects only
ObjectsOnly(vectors) ==
  Arr(Concat([i \in 1..Len(vectors[2]) |->
                IF IsObject(vectors[2][i]) THEN <<vectors[2][i]>> ELSE <<>>]))

WithObjectVectorsOnly ==
  getQuantumSecurityFromCbom(
    Put(arg, "quantumSecurity", Put(ArgQuantum, "vectors", ObjectsOnly(ArgVectors))))

\* A value is there and is not of the type of its level
NotAnObject(v) == v # Undefined /\ ~IsObject(v)
NotAList(v) == v # Undefined /\ ~IsArray(v)

\* C15: a level of quantumSecurity of the wrong type is replaced by its
\* canonical default and the block is otherwise what it is for the document
\* without that level; this holds for qtrl, vectors, riskModel and, inside an
\* object riskModel, for severityLevels and urgencyLevels.  Entries of the
\* vectors list that are not objects are passed over.
C15_MalformedLevelIsolated ==
  Returned("getQuantumSecurityFromCbom") /\ IsObject(arg) /\ IsObject(ArgQuantum) =>
    /\ NotAnObject(Get(ArgQuantum, "qtrl")) =>
         /\ Normalized.qtrl = defaultQuantumSecurity.qtrl
         /\ Normalized = WithoutLevel("qtrl")
    /\ NotAList(ArgVectors) =>
         /\ Normalized.vectors = defaultQuantumSecurity.vectors
         /\ Normalized = WithoutLevel("vectors")
    /\ NotAnObject(ArgRiskModel) =>
         /\ Normalized.riskModel = defaultQuantumSecurity.riskModel
         /\ Normalized = WithoutLevel("riskModel")
    /\ IsObject(ArgRiskModel) /\ NotAList(Get(ArgRiskModel, "severityLevels")) =>
         /\ Get(Normalized.riskModel, "severityLevels") = SEVERITY_LEVELS
         /\ Normalized = WithoutScale("severityLevels")
    /\ IsObject(ArgRiskModel) /\ NotAList(Get(ArgRiskModel, "urgencyLevels")) =>
         /\ Get(Normalized.riskModel, "urgencyLevels") = SEVERITY_LEVELS
         /\ Normalized = WithoutScale("urgencyLevels")
    /\ IsArray(ArgVectors) /\ ObjectsOnly(ArgVectors) # ArgVectors =>
         Normalized = WithObjectVectorsOnly

\* The display side has run on a block with a qtrl that is a string, a
\* severityLevels that is a string next to a supplied urgencyLevels, and a
\* vectors list holding null next to a vector outside the catalog
C15_Witness ==
  /\ Returned("getQuantumSecurityFromCbom")
  /\ IsObject(arg) /\ IsObject(ArgQuantum)
  /\ NotAnObject(Get(ArgQuantum, "qtrl"))
  /\ IsObject(ArgRiskModel)
  /\ NotAList(Get(ArgRiskModel, "severityLevels"))
  /\ Get(Normalized.riskModel, "urgencyLevels") = Arr(<<>>)
  /\ IsArray(ArgVectors)
  /\ Null \in {ArgVectors[2][i] : i \in 1..Len(ArgVectors[2])}
  /\ Str("custom") \in IdsOf(Normalized.vectors)

\* The document in arg has no quantumSecurity, or is no object at all
NoQuantumSecurity ==
  ~IsObject(arg) \/ ~HasOwn(arg, "quantumSecurity")

CatalogOrder ==
  <<"hndl", "authentication", "kml", "thirdParty", "cryptoAgility", "governance">>

ScaleOrder ==
  <<"critical", "high", "medium", "low", "informational">>

\* The list holds exactly the strings of names, in their order
IsListOf(list, names) ==
  /\ IsArray(list)
  /\ Len(list[2]) = Len(names)
  /\ \A i \in 1..Len(names) : list[2][i] = Str(names[i])

\* C16: without quantumSecurity, or for a document that is null or not an
\* object, the block has the six canonical vectors in catalog order, each with
\* status, severity, urgency and notes "Not analysed", a qtrl whose level,
\* name and conditions are "Not analysed", and both scales equal to
\* critical, high, medium, low, informational.
C16_DefaultBlock ==
  Returned("getQuantumSecurityFromCbom") /\ NoQuantumSecurity =>
    /\ IsArray(Normalized.vectors)
    /\ Len(Normalized.vectors[2]) = Len(CatalogOrder)
    /\ \A i \in 1..Len(CatalogOrder) :
         /\ Get(Normalized.vectors[2][i], "id") = Str(CatalogOrder[i])
         /\ \A f \in AssessmentFields :
              Get(Normalized.vectors[2][i], f) = Str("Not analysed")
    /\ \A f \in {"level", "name", "conditions"} :
         Get(Normalized.qtrl, f) = Str("Not analysed")
    /\ IsListOf(Get(Normalized.riskModel, "severityLevels"), ScaleOrder)
    /\ IsListOf(Get(Normalized.riskModel, "urgencyLevels"), ScaleOrder)

\* The display side has run on a document with a header and no quantumSecurity
C16_Witness ==
  /\ Returned("getQuantumSecurityFromCbom")
  /\ IsObject(arg)
  /\ HasOwn(arg, "bomFormat")
  /\ ~HasOwn(arg, "quantumSecurity")

\* The quantumAssessment of the asset in arg, when the asset, its
\* cryptoProperties and the assessment are all objects
ArgAssessment == Get(Get(ArgAsset, "cryptoProperties"), "quantumAssessment")

HasAssessment ==
  /\ IsObject(ArgAsset)
  /\ IsObject(Get(ArgAsset, "cryptoProperties"))
  /\ IsObject(ArgAssessment)

\* The display names of the catalog, by id
DisplayNames ==
  [ hndl |-> "HNDL", authentication |-> "Authentication", kml |-> "KML",
    thirdParty |-> "Third Party", cryptoAgility |-> "Crypto Agility",
    governance |-> "Compliance" ]

\* C17: getComponentQuantumAssessment returns, for each of vector, severity,
\* urgency and notes, the supplied value when the field is there and "Not
\* analysed" when it is absent, each field on its own; vectorName is the
\* canonical display name when vector is a canonical id and the vector value
\* returned otherwise; when the asset, its cryptoProperties or its
\* quantumAssessment is missing or not an object, all five are "Not analysed".
C17_AssessmentDefaults ==
  Returned("getComponentQuantumAssessment") =>
    IF HasAssessment
    THEN /\ \A f \in {"vector", "severity", "urgency", "notes"} :
              Get(Assessed, f) = IF IsNullish(Get(ArgAssessment, f))
                                 THEN Str("Not analysed")
                                 ELSE Get(ArgAssessment, f)
         /\ Get(Assessed, "vectorName") =
              IF /\ IsString(Get(ArgAssessment, "vector"))
                 /\ Get(ArgAssessment, "vector")[2] \in DOMAIN DisplayNames
              THEN Str(DisplayNames[Get(ArgAssessment, "vector")[2]])
              ELSE Get(Assessed, "vector")
    ELSE \A f \in {"vector", "severity", "urgency", "notes", "vectorName"} :
           Get(Assessed, f) = Str("Not analysed")

\* An asset has been assessed whose assessment names the canonical vector
\* thirdParty and a severity, and has no urgency
C17_Witness ==
  /\ Returned("getComponentQuantumAssessment")
  /\ HasAssessment
  /\ Get(ArgAssessment, "vector") = Str("thirdParty")
  /\ Get(ArgAssessment, "severity") = Str("high")
  /\ ~HasOwn(ArgAssessment, "urgency")
  /\ Get(Assessed, "vectorName") = Str("Third Party")

\* C12: both normalizers are idempotent: getQuantumSecurityFromCbom on the
\* document that holds its own output as quantumSecurity returns that output
\* again, and getComponentQuantumAssessment on the asset that holds its own
\* output as cryptoProperties.quantumAssessment returns that output again.
C12_NormalizersIdempotent ==
  /\ Returned("renormalize") => Renormalized = Normalized
  /\ Returned("reassess") => Reassessed = Assessed

\* Both have run twice, on a block with a vector outside the catalog and on an
\* assessment that names a canonical vector
C12_Witness ==
  /\ Returned("renormalize")
  /\ Returned("reassess")
  /\ Len(Normalized.vectors[2]) > Len(QUANTUM_VECTOR_DEFINITIONS)
  /\ Get(Assessed, "vector") = Str("hndl")
  /\ Get(Assessed, "severity") = Str("high")

ArgLevel == Get(Get(ArgQuantum, "qtrl"), "level")

\* The document supplies a QTRL level that is one of the numbers 0, 1, 2, 3
SuppliesNumericLevel ==
  /\ IsObject(arg) /\ IsObject(ArgQuantum) /\ IsObject(Get(ArgQuantum, "qtrl"))
  /\ ArgLevel \in {Num(n) : n \in 0..3}

\* C27: a supplied numeric QTRL level 0..3, 0 included, is the level of the
\* block after getQuantumSecurityFromCbom and after ensurePresent: neither
\* puts "Not analysed" in its place.
C27_NumericLevelKept ==
  SuppliesNumericLevel =>
    /\ Returned("getQuantumSecurityFromCbom") => Get(Normalized.qtrl, "level") = ArgLevel
    /\ Returned("ensurePresent") => Get(Get(Ensured, "qtrl"), "level") = ArgLevel

(***************************************************************************)
(* Spec: the model object under any sequence of loads, reads and scan      *)
(* updates.  arg is the argument of the last load, ret the result of the   *)
(* last read.                                                              *)
(***************************************************************************)
MetadataProperties ==
  Arr(<< Obj([name |-> Str("gitUrl"), value |-> Str("https://example.org/a.git")]),
         Obj([name |-> Str("revision"), value |-> Str("main")]),
         Obj([name |-> Str("commit"), value |-> Str("abc123")]),
         Obj([name |-> Str("subfolder")]) >>)

\* Two assets, explicit dependencies and provenance
FirstDocument ==
  Build(Header(AllFields) @@
        [ metadata |-> Obj([properties |-> MetadataProperties]),
          components |->
            Arr(<< Asset(Str("r1"), "AES128@r1", Omit, RelatedProps("r2")),
                   Asset(Str("r2"), "SHA256", Obj([occurrences |-> Occurrences(1)]),
                         AlgorithmProps) >>),
          dependencies |->
            Arr(<< Obj([ ref |-> Str("r1"), dependsOn |-> Arr(<<Str("r2")>>),
                         provides |-> Arr(<<Str("r2")>>) ]) >>) ])

\* Another asset, no provenance, no explicit dependencies
SecondDocument ==
  Build(Header(AllFields) @@
        [ components |->
            Arr(<< Asset(Str("r3"), "RSA", Obj([occurrences |-> Occurrences(1)]),
                         RelatedProps("r3")) >>) ])

LoadedDocuments ==
  { FirstDocument, SecondDocument,
    Null,
    Obj([bomFormat |-> Str("CycloneDX")]),
    Build(Header(AllFields) @@ [metadata |-> Null, components |-> Arr(<<>>)]),
    Build(Header(AllFields) @@ [components |-> Arr(<<Null>>)]),
    Build(Header(AllFields) @@
          [ components |-> Arr(<<Asset(Str("r2"), "SHA256", Omit, AlgorithmProps)>>),
            dependencies |-> Arr(<<Null>>) ]) }

\* Scan objects as the API returns them
ScanResults ==
  { Null, EmptyObj,
    Obj([ bom |-> SecondDocument, projectIdentifier |-> Str("project"),
          gitUrl |-> Str("https://example.org/b.git"), branch |-> Str("dev") ]),
    Obj([ bom |-> FirstDocument ]) }

\* The states of model.scanning: no scan, a scan that has found nothing
\* yet, a scan that has found an asset
ScanningStates ==
  { [isScanning |-> FALSE, liveDetections |-> <<>>],
    [isScanning |-> TRUE, liveDetections |-> <<>>],
    [isScanning |-> TRUE,
     liveDetections |-> <<Asset(Str("r1"), "AES128@live", Omit, RelatedProps("r2"))>>] }

Init == InitModel /\ arg = Undefined /\ ret = NoResult

SetCbom(doc) ==
  /\ Becomes(setCbom(Model, doc))
  /\ arg' = doc
  /\ ret' = NoResult

ShowResultFromUpload(doc) ==
  /\ Becomes(showResultFromUpload(Model, doc, FileName))
  /\ arg' = doc
  /\ ret' = NoResult

ShowResultFromApi(cbomApi) ==
  /\ Becomes(showResultFromApi(Model, cbomApi))
  /\ arg' = cbomApi
  /\ ret' = NoResult

GetDetections ==
  /\ Becomes(AfterGetDetections(Model, getDetections(cbom, scanning)))
  /\ ret' = ("getDetections" :> getDetections(cbom, scanning).detections)
  /\ UNCHANGED arg

GetDependencies(bomRef) ==
  /\ showResults
  /\ ret' = ("getDependencies" :> [bomRef |-> bomRef,
                                   lists |-> getDependencies(dependencies, bomRef)])
  /\ thrown' = FALSE
  /\ UNCHANGED <<cbom, dependencies, errors, codeOrigin, showResults, scanning,
                 console, arg>>

\* The scanner, outside cbom.js, writes model.scanning
ScanUpdate(s) ==
  /\ scanning # s
  /\ scanning' = s
  /\ UNCHANGED <<cbom, dependencies, errors, codeOrigin, showResults, console,
                 thrown, arg, ret>>

Next ==
  \/ \E doc \in LoadedDocuments : SetCbom(doc)
  \/ \E doc \in LoadedDocuments : ShowResultFromUpload(doc)
  \/ \E cbomApi \in ScanResults : ShowResultFromApi(cbomApi)
  \/ GetDetections
  \/ \E bomRef \in References : GetDependencies(bomRef)
  \/ \E s \in ScanningStates : ScanUpdate(s)

Spec == Init /\ [][Next]_vars

(***************************************************************************)
(* Properties of the loads, under Spec.                                    *)
(***************************************************************************)
\* The index of the document held in model.cbom: what setDependenciesMap
\* builds from its dependencies and from its detections
IndexOfCurrentDocument ==
  BuildIndex(cbom,
             removeBomRefFromDetectionNames(
               getDetectionsFromCbom(cbom).detections).detections)

\* C8: after any sequence of loads and replacements, throwing ones
\* included, model.dependencies is the index of the document held in
\* model.cbom: empty when there is none, else neither with an edge or asset
\* of an earlier document nor without an edge of the current one.
C8_IndexFollowsDocument ==
  IF IsNullish(cbom) THEN dependencies = EmptyIndex
  ELSE ~ExplicitThrows(cbom) => dependencies = IndexOfCurrentDocument

\* The last step was a load of a document that is an object
LoadedAnObject == ret = NoResult /\ arg \in LoadedDocuments /\ IsObject(arg)

\* C26: a load of a document that is an object never throws, whatever its
\* fields hold: null entries in components, a null metadata, or null entries
\* in metadata.properties are reported or passed over, and the load returns.
C26_ObjectDocumentsNeverThrow ==
  LoadedAnObject => ~thrown

(***************************************************************************)
(* The report header: getHeaderData of pdfGenerator.js, on the provenance  *)
(* it reads from model.codeOrigin.  No load of cbom.js writes scanUrl, so  *)
(* the record has no such field and the title falls through to the default.*)
(***************************************************************************)
\* String.prototype.substring(0, n)
Substring(text, n) == IF Len(text) <= n THEN text ELSE SubSeq(text, 1, n)

\* `${label}: ${value}` when value is truthy
Tag(label, value) == IF Falsy(value) THEN <<>> ELSE <<label \o ": " \o value[2]>>

getHeaderData(origin) ==
  [ title |->
      IF ~Falsy(origin.uploadedFileName)
      THEN origin.uploadedFileName[2] \o " (uploaded)"
      ELSE IF ~Falsy(origin.projectIdentifier)
      THEN origin.projectIdentifier[2]
      ELSE "CBOM Report",
    tags |->
      Tag("gitUrl", origin.gitUrl)
      \o Tag("revision", origin.revision)
      \o (IF Falsy(origin.commitID) THEN <<>>
          ELSE <<"commit: " \o Substring(origin.commitID[2], 7)>>)
      \o Tag("subfolder", origin.subfolder) ]

\* The model as it is, with the provenance of a model that has loaded nothing
WithoutProvenance ==
  [Model EXCEPT !.codeOrigin =
     [ gitUrl |-> Null, revision |-> Null, subfolder |-> Null,
       commitID |-> Null, projectIdentifier |-> Null,
       uploadedFileName |-> Null ]]

\* The provenance left by a load is the provenance origin that the same load
\* leaves on a model without provenance, and the header says the same
DescribesOnly(origin) ==
  /\ codeOrigin' = origin
  /\ getHeaderData(codeOrigin') = getHeaderData(origin)

\* C30: every showResultFromUpload and every showResultFromApi that returns
\* leaves in model.codeOrigin what that load alone writes: each of gitUrl,
\* revision, subfolder, commitID, projectIdentifier and uploadedFileName is
\* as after the same load on a model that has loaded nothing before, and so
\* are the title and the tags of getHeaderData.
C30_ProvenanceOfLastLoad ==
  [][ /\ \A doc \in LoadedDocuments :
           arg' = doc /\ ~thrown' /\ ShowResultFromUpload(doc)
             => DescribesOnly(showResultFromUpload(WithoutProvenance, doc, FileName).codeOrigin)
      /\ \A cbomApi \in ScanResults :
           arg' = cbomApi /\ ~thrown' /\ ShowResultFromApi(cbomApi)
             => DescribesOnly(showResultFromApi(WithoutProvenance, cbomApi).codeOrigin)
    ]_vars

====
